---- MODULE Spec2Model ----
(***************************************************************************)
(* ConserveBot backend: the reading simulator (simulator.js), the decision *)
(* engine (engine.js), the numeric helpers (utils.js) and the standards    *)
(* table (standards.js).                                                   *)
(*                                                                         *)
(* Numbers.  Every real quantity of the program (degrees C, percent,       *)
(* normalised vibration, control biases) is kept as an integer count of    *)
(* 1/10000 of its unit: 16 C is 160000, a humidity of 40.5 % is 405000,    *)
(* an airflowBoost of 0.25 is 2500.  All constants of the source are exact *)
(* in that unit.  Times are integer milliseconds, counted from an origin   *)
(* that lies T0 ms before the process starts (Date.now() itself does not   *)
(* fit the integers TLC computes with).                                    *)
(***************************************************************************)
EXTENDS Integers, Sequences, FiniteSets, TLC

Scale == 100 * 100

\* ------------------------------------------------------------------ utils.js

Max2(a, b) == IF a >= b THEN a ELSE b
Min2(a, b) == IF a <= b THEN a ELSE b

\* clamp(n, min, max) = Math.max(min, Math.min(max, n))
\* clamp without its upper bound
clampLowerOnly(n, lo, hi) == Max2(lo, n)

clamp(n, lo, hi) == Max2(lo, Min2(hi, n))

\* A value of Math.random(), which lies in [0, 1), is given in hundredths.
RandU == {0, 4, 50, 99}

\* lerp(a, b, t) = a + (b - a) * t, t in hundredths
lerp(a, b, t) == a + ((b - a) * t) \div 100

\* rand(min, max) = lerp(min, max, Math.random())
rand(lo, hi, u) == lerp(lo, hi, u)

\* Math.random() < p, p a probability in model units
randomBelow(u, p) == u * (Scale \div 100) < p

isBetweenInclusive(x, band) == x >= band[1] /\ x <= band[2]

\* Number(x.toFixed(d)): x rounded to the nearest multiple of q = 10^-d
\* (q given in model units), ties upward.
toFixed(x, q) == ((x + q \div 2) \div q) * q

\* Math.round(x) for x = n / d with d > 0: floor(x + 1/2).
mathRound(n, d) == (2 * n + d) \div (2 * d)

\* ------------------------------------------------------------- standards.js

ARTIFACT_TYPES == {"FOSSILS", "ORGANIC", "METALLIC", "STONE"}

STANDARDS_BY_TYPE ==
  [ FOSSILS |->
      [ temperatureC |-> [safe |-> <<160000, 220000>>, warn |-> <<150000, 230000>>],
        humidityPct  |-> [safe |-> <<400000, 550000>>, warn |-> <<350000, 600000>>],
        moisturePct  |-> [safeMax |-> 50000, warnMax |-> 60000],
        access       |-> [maxOpensPerHourSafe |-> 2, maxOpensPerHourWarn |-> 4],
        vibration    |-> [safeMax |-> 2500, warnMax |-> 5000] ],
    ORGANIC |->
      [ temperatureC |-> [safe |-> <<160000, 200000>>, warn |-> <<150000, 220000>>],
        humidityPct  |-> [safe |-> <<450000, 550000>>, warn |-> <<400000, 600000>>],
        moisturePct  |-> [safeMax |-> 40000, warnMax |-> 50000],
        access       |-> [maxOpensPerHourSafe |-> 1, maxOpensPerHourWarn |-> 3],
        vibration    |-> [safeMax |-> 2000, warnMax |-> 4000] ],
    METALLIC |->
      [ temperatureC |-> [safe |-> <<160000, 220000>>, warn |-> <<150000, 230000>>],
        humidityPct  |-> [safe |-> <<350000, 450000>>, warn |-> <<300000, 500000>>],
        moisturePct  |-> [safeMax |-> 30000, warnMax |-> 40000],
        access       |-> [maxOpensPerHourSafe |-> 1, maxOpensPerHourWarn |-> 3],
        vibration    |-> [safeMax |-> 2500, warnMax |-> 5000] ],
    STONE |->
      [ temperatureC |-> [safe |-> <<160000, 240000>>, warn |-> <<150000, 260000>>],
        humidityPct  |-> [safe |-> <<400000, 600000>>, warn |-> <<350000, 650000>>],
        moisturePct  |-> [safeMax |-> 60000, warnMax |-> 70000],
        access       |-> [maxOpensPerHourSafe |-> 3, maxOpensPerHourWarn |-> 6],
        vibration    |-> [safeMax |-> 3000, warnMax |-> 6000] ] ]

\* STANDARDS_BY_TYPE[artifactType] ?? STANDARDS_BY_TYPE.FOSSILS
getStandards(artifactType) ==
  IF artifactType \in DOMAIN STANDARDS_BY_TYPE
    THEN STANDARDS_BY_TYPE[artifactType]
    ELSE STANDARDS_BY_TYPE["FOSSILS"]

\* ------------------------------------------------------------- simulator.js

DEMO_MODES == {"normal", "atRisk", "remediation"}

midpoint(band) == (band[1] + band[2]) \div 2

\* new Date(nowMs).toISOString(): the calendar fields of the instant, to the
\* millisecond (kept here as whole seconds and the millisecond of the second),
\* and Date.parse of such a string.
toISOString(nowMs) == [sec |-> nowMs \div 1000, msec |-> nowMs % 1000]
DateParse(iso) == iso.sec * 1000 + iso.msec

\* The draws one call of _initState makes: three calls of rand.
InitDraws == [t : RandU, h : RandU, m : RandU]

\* _initState() also putting this.controls back to their starting values
initStateResetting(s, nowMs, d) ==
  [ s EXCEPT !.controls = [ tempBiasC |-> 0, humidityBiasPct |-> 0,
                            airflowBoost |-> 0, accessLockedUntilMs |-> 0 ],
             !.state.lastDoorToggleMs = nowMs,
             !.state.opensInLastHour = << >> ]

\* _initState(): this.state rebuilt from the standards and the demo mode;
\* this.controls is not touched.
initState(s, nowMs, d) ==
  LET std   == getStandards(s.artifactType)
      baseT == midpoint(std.temperatureC.safe)
      baseH == midpoint(std.humidityPct.safe)
      baseM == Min2(std.moisturePct.safeMax - 5000, std.moisturePct.safeMax)
      start ==
        IF s.demoMode = "remediation" THEN
          [ temperatureC |-> baseT + rand(25000, 40000, d.t),
            humidityPct  |-> baseH + rand(80000, 150000, d.h),
            moisturePct  |-> baseM + rand(15000, 30000, d.m) ]
        ELSE IF s.demoMode = "atRisk" THEN
          [ temperatureC |-> baseT + rand(5000, 15000, d.t),
            humidityPct  |-> baseH + rand(30000, 60000, d.h),
            moisturePct  |-> baseM + rand(5000, 12000, d.m) ]
        ELSE
          [ temperatureC |-> baseT + rand(-4000, 4000, d.t),
            humidityPct  |-> baseH + rand(-15000, 15000, d.h),
            moisturePct  |-> baseM + rand(-3000, 3000, d.m) ]
  IN [ s EXCEPT !.state =
         [ temperatureC     |-> start.temperatureC,
           humidityPct      |-> start.humidityPct,
           moisturePct      |-> start.moisturePct,
           doorState        |-> "closed",
           lastDoorToggleMs |-> nowMs,
           opensInLastHour  |-> << >>,
           vibration        |-> 0 ] ]

\* The state record before _initState has run (fields not yet assigned).
NoState == [ temperatureC |-> 0, humidityPct |-> 0, moisturePct |-> 0,
             doorState |-> "closed", lastDoorToggleMs |-> 0,
             opensInLastHour |-> << >>, vibration |-> 0 ]

\* new Simulator({ artifactType, demoMode })
construct(artifactType, demoMode, nowMs, d) ==
  initState(
    [ artifactType |-> artifactType,
      demoMode     |-> demoMode,
      controls     |-> [ tempBiasC |-> 0, humidityBiasPct |-> 0,
                         airflowBoost |-> 0, accessLockedUntilMs |-> 0 ],
      state        |-> NoState ],
    nowMs, d)

setArtifactType(s, artifactType, nowMs, d) ==
  initState([s EXCEPT !.artifactType = artifactType], nowMs, d)

\* setDemoMode falling back to the default artifact type
setDemoModeDefaultType(s, demoMode, nowMs, d) ==
  initState([s EXCEPT !.demoMode = demoMode, !.artifactType = "FOSSILS"], nowMs, d)

setDemoMode(s, demoMode, nowMs, d) ==
  initState([s EXCEPT !.demoMode = demoMode], nowMs, d)

ACTION_TYPES == { "ADJUST_TEMP_DOWN", "ADJUST_TEMP_UP", "DEHUMIDIFY", "HUMIDIFY",
                  "TRIGGER_AIRFLOW", "LOCK_ACCESS_10_MIN" }

\* applyAction with the lock also shutting the door
applyActionClosingDoor(s, actionType, now) ==
  IF actionType = "LOCK_ACCESS_10_MIN"
    THEN [s EXCEPT !.controls.accessLockedUntilMs = now + 10 * 60000,
                   !.state.doorState = "closed"]
    ELSE s

\* applyAction with DEHUMIDIFY pushing the humidity bias up
applyActionHumidifying(s, actionType, now) ==
  IF actionType = "DEHUMIDIFY"
    THEN [s EXCEPT !.controls.humidityBiasPct = s.controls.humidityBiasPct + 4000]
    ELSE s

\* applyAction(actionType); now is Date.now() at the call
\* applyAction with TRIGGER_AIRFLOW adding its 0.25 without the cap at 1
applyActionUncapped(s, actionType, now) ==
  LET c == s.controls IN
  CASE actionType = "ADJUST_TEMP_DOWN" ->
         [s EXCEPT !.controls.tempBiasC = c.tempBiasC - 1500]
    [] actionType = "ADJUST_TEMP_UP" ->
         [s EXCEPT !.controls.tempBiasC = c.tempBiasC + 1500]
    [] actionType = "DEHUMIDIFY" ->
         [s EXCEPT !.controls.humidityBiasPct = c.humidityBiasPct - 4000,
                   !.controls.airflowBoost = clamp(c.airflowBoost + 2000, 0, Scale)]
    [] actionType = "HUMIDIFY" ->
         [s EXCEPT !.controls.humidityBiasPct = c.humidityBiasPct + 4000]
    [] actionType = "TRIGGER_AIRFLOW" ->
         [s EXCEPT !.controls.airflowBoost = c.airflowBoost + 2500]
    [] actionType = "LOCK_ACCESS_10_MIN" ->
         [s EXCEPT !.controls.accessLockedUntilMs =
                     Max2(c.accessLockedUntilMs, now + 10 * 60000)]
    [] OTHER -> s

\* applyAction with the lock lasting 80 minutes instead of 10
applyActionLock80Min(s, actionType, now) ==
  IF actionType = "LOCK_ACCESS_10_MIN"
    THEN [s EXCEPT !.controls.accessLockedUntilMs =
                     Max2(s.controls.accessLockedUntilMs, now + 80 * 60000)]
    ELSE s

applyAction(s, actionType, now) ==
  LET c == s.controls IN
  CASE actionType = "ADJUST_TEMP_DOWN" ->
         [s EXCEPT !.controls.tempBiasC = c.tempBiasC - 1500]
    [] actionType = "ADJUST_TEMP_UP" ->
         [s EXCEPT !.controls.tempBiasC = c.tempBiasC + 1500]
    [] actionType = "DEHUMIDIFY" ->
         [s EXCEPT !.controls.humidityBiasPct = c.humidityBiasPct - 4000,
                   !.controls.airflowBoost = clamp(c.airflowBoost + 2000, 0, Scale)]
    [] actionType = "HUMIDIFY" ->
         [s EXCEPT !.controls.humidityBiasPct = c.humidityBiasPct + 4000]
    [] actionType = "TRIGGER_AIRFLOW" ->
         [s EXCEPT !.controls.airflowBoost = clamp(c.airflowBoost + 2500, 0, Scale)]
    [] actionType = "LOCK_ACCESS_10_MIN" ->
         [s EXCEPT !.controls.accessLockedUntilMs =
                     Max2(c.accessLockedUntilMs, now + 10 * 60000)]
    [] OTHER -> s

\* opensInLastHour.filter((t) => t > oneHourAgo): the instant one hour back dropped
recentOpensStrict(opens, nowMs) ==
  SelectSeq(opens, LAMBDA t : t > nowMs - 60 * 60000)

\* opensInLastHour.filter((t) => t >= oneHourAgo)
recentOpens(opens, nowMs) ==
  SelectSeq(opens, LAMBDA t : t >= nowMs - 60 * 60000)

\* nowMs <= this.controls.accessLockedUntilMs: locked at the expiry instant too
accessLockedThrough(c, nowMs) == nowMs <= c.accessLockedUntilMs

\* const accessLocked = nowMs < this.controls.accessLockedUntilMs
accessLockedAt(c, nowMs) == nowMs < c.accessLockedUntilMs

\* The random draws of one tick: four calls of randn() (in model units, so
\* 10000 is one standard deviation), the Math.random() of the door toggle, the
\* Math.random() of the vibration bump and the one of its rand(0.3, 0.9).
\* tick(nowMs): the simulator after the tick and the Reading it returns
tick(s, nowMs, nz) ==
  LET std == getStandards(s.artifactType)
      st  == s.state
      c   == s.controls
      driftT == IF s.demoMode = "atRisk" THEN 40
                ELSE IF s.demoMode = "remediation" THEN -20 ELSE 0
      driftH == IF s.demoMode = "atRisk" THEN 200
                ELSE IF s.demoMode = "remediation" THEN -100 ELSE 0
      t1 == st.temperatureC + (nz.rT * 3) \div 100 + driftT + (c.tempBiasC * 2) \div 100
      airflowEffect == (c.airflowBoost * (-3)) \div 100
      h1 == st.humidityPct + (nz.rH * 10) \div 100 + driftH
              + (c.humidityBiasPct * 3) \div 100 + airflowEffect
      moistureTarget ==
        ((h1 - midpoint(std.humidityPct.safe)) * 4) \div 100
          + Min2(std.moisturePct.safeMax - 8000, std.moisturePct.safeMax)
      m1 == st.moisturePct + ((moistureTarget - st.moisturePct) * 2) \div 100
              + (nz.rM * 2) \div 100
      t2 == clamp(t1, 5 * Scale, 35 * Scale)
      h2 == clamp(h1, 5 * Scale, 95 * Scale)
      m2 == clamp(m1, 0, 20 * Scale)
      accessLocked == accessLockedAt(c, nowMs)
      canToggle == nowMs - st.lastDoorToggleMs > 10000
      baseChance == IF s.demoMode = "normal" THEN 100
                    ELSE IF s.demoMode = "atRisk" THEN 300 ELSE 500
      toggleChance == IF st.doorState = "closed" THEN baseChance ELSE 800
      toggles == ~accessLocked /\ canToggle /\ randomBelow(nz.uDoor, toggleChance)
      forced  == ~(~accessLocked /\ canToggle) /\ accessLocked /\ st.doorState = "open"
      door2 == IF toggles THEN (IF st.doorState = "closed" THEN "open" ELSE "closed")
               ELSE IF forced THEN "closed" ELSE st.doorState
      last2 == IF toggles \/ forced THEN nowMs ELSE st.lastDoorToggleMs
      opens1 == IF toggles /\ door2 = "open"
                  THEN Append(st.opensInLastHour, nowMs) ELSE st.opensInLastHour
      opens2 == recentOpens(opens1, nowMs)
      bumpChance == IF s.demoMode = "normal" THEN 100
                    ELSE IF s.demoMode = "atRisk" THEN 200 ELSE 300
      bump == IF randomBelow(nz.uBump, bumpChance) THEN rand(3000, 9000, nz.uSize) ELSE 0
      v2 == clamp((st.vibration * 85) \div 100 + bump + (nz.rV * 1) \div 100, 0, Scale)
  IN [ sim |-> [ s EXCEPT !.state =
                   [ temperatureC     |-> t2,
                     humidityPct      |-> h2,
                     moisturePct      |-> m2,
                     doorState        |-> door2,
                     lastDoorToggleMs |-> last2,
                     opensInLastHour  |-> opens2,
                     vibration        |-> v2 ] ],
       reading |-> [ timestamp    |-> toISOString(nowMs),
                     temperatureC |-> toFixed(t2, 100),
                     humidityPct  |-> toFixed(h2, 1000),
                     moisturePct  |-> toFixed(m2, 100),
                     doorState    |-> door2,
                     opensPerHour |-> Len(opens2),
                     vibration    |-> toFixed(v2, 100),
                     accessLocked |-> accessLocked ] ]

\* One batch of generateHistory's back-dated ticks: tick(now - i * stepMs) for
\* i = hi down to lo, in that order; the simulator after the last of them and
\* the Readings pushed, in push order.  The range is split in halves so that
\* the evaluation does not nest one level per tick; the ticks run in the order
\* of the source's for loop.  Tick i draws nzA for even i and nzB for odd i.
RECURSIVE backDatedTicks(_, _, _, _, _, _, _)
backDatedTicks(s, now, stepMs, hi, lo, nzA, nzB) ==
  IF hi = lo
    THEN LET r == tick(s, now - hi * stepMs, IF hi % 2 = 0 THEN nzA ELSE nzB)
         IN [sim |-> r.sim, out |-> <<r.reading>>]
    ELSE LET mid    == (hi + lo + 1) \div 2
             first  == backDatedTicks(s, now, stepMs, hi, mid, nzA, nzB)
             second == backDatedTicks(first.sim, now, stepMs, mid - 1, lo, nzA, nzB)
         IN IF Len(first.out) > 0   \* the first half runs before the second
              THEN [sim |-> second.sim, out |-> first.out \o second.out]
              ELSE first

\* generateHistory with both loops stopping at i = 1
generateHistoryShort(s, now, nzA, nzB) ==
  LET day  == backDatedTicks(s, now, 60000, 24 * 60, 1, nzA, nzB)
      week == backDatedTicks(day.sim, now, 30 * 60000, 7 * 48, 1, nzA, nzB)
  IN IF Len(day.out) > 0
       THEN [sim |-> week.sim, history24h |-> day.out, history7d |-> week.out]
       ELSE [sim |-> day.sim, history24h |-> day.out, history7d |-> << >>]

\* generateHistory leaving the airflow control at rest when it returns
generateHistoryVenting(s, now, nzA, nzB) ==
  LET day  == backDatedTicks(s, now, 60000, 24 * 60, 0, nzA, nzB)
      week == backDatedTicks(day.sim, now, 30 * 60000, 7 * 48, 0, nzA, nzB)
      rest == [week.sim EXCEPT !.controls.airflowBoost = 0]
  IN IF Len(day.out) > 0
       THEN [sim |-> rest, history24h |-> day.out, history7d |-> week.out]
       ELSE [sim |-> day.sim, history24h |-> day.out, history7d |-> << >>]

\* generateHistory(); now is Date.now() at the call
generateHistory(s, now, nzA, nzB) ==
  LET day  == backDatedTicks(s, now, 60000, 24 * 60, 0, nzA, nzB)
      week == backDatedTicks(day.sim, now, 30 * 60000, 7 * 48, 0, nzA, nzB)
  IN IF Len(day.out) > 0        \* the 24h loop runs before the 7d loop
       THEN [sim |-> week.sim, history24h |-> day.out, history7d |-> week.out]
       ELSE [sim |-> day.sim, history24h |-> day.out, history7d |-> << >>]

\* ---------------------------------------------------------------- engine.js
\* Risk contributions are kept in thousandths of a risk point (RiskUnit per
\* point); the quotients of the source are cut to that unit.

RiskUnit == 10 * 100

\* rangeStatus with the ends of the safe band counted as warn
rangeStatusOpen(x, band) ==
  IF x > band.safe[1] /\ x < band.safe[2] THEN "safe"
  ELSE IF isBetweenInclusive(x, band.warn) THEN "warn"
  ELSE "danger"

rangeStatus(x, band) ==
  IF isBetweenInclusive(x, band.safe) THEN "safe"
  ELSE IF isBetweenInclusive(x, band.warn) THEN "warn"
  ELSE "danger"

maxStatus(x, lim) ==
  IF x <= lim.safeMax THEN "safe"
  ELSE IF x <= lim.warnMax THEN "warn"
  ELSE "danger"

statusToColor(status) ==
  IF status = "safe" THEN "green"
  ELSE IF status = "warn" THEN "yellow"
  ELSE "red"

\* riskFromRange with the danger zone scored below the top of the warn band
riskFromRangeDip(x, band) ==
  IF isBetweenInclusive(x, band.safe) THEN 0
  ELSE IF isBetweenInclusive(x, band.warn) THEN 60 * RiskUnit
  ELSE 50 * RiskUnit

\* 0 in safe, 25..60 in the warn band, 70..100 outside warn
riskFromRange(x, band) ==
  LET s0 == band.safe[1]
      s1 == band.safe[2]
      w0 == band.warn[1]
      w1 == band.warn[2]
  IN IF isBetweenInclusive(x, band.safe) THEN 0
     ELSE IF isBetweenInclusive(x, band.warn) THEN
       LET d    == IF x < s0 THEN s0 - x ELSE IF x > s1 THEN x - s1 ELSE 0
           maxD == IF x < s0 THEN s0 - w0 ELSE w1 - s1
           \* t = maxD > 0 ? clamp(d / maxD, 0, 1) : 1, times 35
           t35  == IF maxD > 0 THEN (35 * RiskUnit * clamp(d, 0, maxD)) \div maxD
                   ELSE 35 * RiskUnit
       IN 25 * RiskUnit + t35
     ELSE
       LET d == IF x < w0 THEN w0 - x ELSE IF x > w1 THEN x - w1 ELSE 0
       IN 70 * RiskUnit + (30 * RiskUnit * clamp(d, 0, 5 * Scale)) \div (5 * Scale)

riskFromMax(x, lim) ==
  IF x <= lim.safeMax THEN 0
  ELSE IF x <= lim.warnMax THEN
    LET den == Max2(Scale \div 1000, lim.warnMax - lim.safeMax)
    IN 25 * RiskUnit + (35 * RiskUnit * clamp(x - lim.safeMax, 0, den)) \div den
  ELSE 70 * RiskUnit + (30 * RiskUnit * clamp(x - lim.warnMax, 0, 3 * Scale)) \div (3 * Scale)

\* riskLevel with the boundary scores put one level down
riskLevelInclusive(score) ==
  IF score <= 30 THEN "LOW"
  ELSE IF score <= 60 THEN "MEDIUM"
  ELSE IF score <= 80 THEN "HIGH"
  ELSE "CRITICAL"

riskLevel(score) ==
  IF score < 30 THEN "LOW"
  ELSE IF score < 60 THEN "MEDIUM"
  ELSE IF score < 80 THEN "HIGH"
  ELSE "CRITICAL"

\* a * b = q * c + r with 0 <= r < c, for b >= 0 and c > 0, computed without
\* forming the product a * b.
RECURSIVE mulDiv(_, _, _)
mulDiv(a, b, c) ==
  IF b = 0 THEN [q |-> 0, r |-> 0]
  ELSE LET h   == mulDiv(a, b \div 2, c)
           add == IF b % 2 = 1 THEN a ELSE 0
           tot == 2 * h.r + (add % c)
       IN [q |-> 2 * h.q + (add \div c) + (tot \div c), r |-> tot % c]

\* f[lo] + ... + f[hi], summed by halves so that a window of 900 entries keeps
\* the evaluation shallow.
RECURSIVE sumRange(_, _, _)
sumRange(f, lo, hi) ==
  IF lo > hi THEN 0
  ELSE IF lo = hi THEN f[lo]
  ELSE LET mid == (lo + hi) \div 2
       IN sumRange(f, lo, mid) + sumRange(f, mid + 1, hi)

SeqSum(f, n) == sumRange(f, 1, n)

\* slope(points), points = [{t (ms), y}]: the least-squares slope in y units per
\* second, as the fraction num / den (den > 0).  With n points the source sums
\* (ts[i] - tMean) * (ys[i] - yMean) and (ts[i] - tMean)^2; both sums are kept
\* here times n * n, which leaves the quotient and the den === 0 test as they are.
\* A num of 0 gives the quotient 0 whatever den is, the value of the den === 0
\* branch, and den is then left unsummed.
slope(points) ==
  LET n == Len(points) IN
  IF n < 2 THEN [num |-> 0, den |-> 1]
  ELSE
    LET t0   == points[1].t
        ts   == [i \in 1..n |-> (points[i].t - t0) \div 1000]
        ys   == [i \in 1..n |-> points[i].y]
        tSum == SeqSum(ts, n)
        ySum == SeqSum(ys, n)
        num  == SeqSum([i \in 1..n |-> (n * ts[i] - tSum) * (n * ys[i] - ySum)], n)
        den  == SeqSum([i \in 1..n |-> (n * ts[i] - tSum) * (n * ts[i] - tSum)], n)
    IN IF num = 0 \/ den = 0 THEN [num |-> 0, den |-> 1] ELSE [num |-> num, den |-> den]

\* The humidity of a window entry in tenths of a percent, the precision a
\* Reading's humidity has.
humidityPoints(recent) ==
  [i \in 1..Len(recent) |-> [t |-> recent[i].tMs, y |-> recent[i].reading.humidityPct \div 1000]]

\* humiditySlopePerMin > p, for a slope sl in tenths of a percent per second and
\* p in model units of percent per minute: 6 * num / den > p / Scale, that is
\* num > den / k with k = 6 * Scale / p, which is whole for the thresholds of
\* the source (0.05, 0.08, 0.15).
slopePerMinAbove(sl, p) == sl.num > sl.den \div ((6 * Scale) \div p)

\* Number(humiditySlopePerMin.toFixed(3)), in thousandths of a percent per minute
slopePerMinFixed3(sl) == (mulDiv(sl.num, 12000, sl.den).q + 1) \div 2

predictionForHumidity(humidityPct, humidityStatus, sl) ==
  IF humidityStatus = "danger" /\ humidityPct >= 60 * Scale THEN
    IF slopePerMinAbove(sl, 500)
      THEN << <<"Humidity rising fast-risk of mold formation within ~6 hours.">> >>
      ELSE << <<"High humidity-mold risk increases over the next day.">> >>
  ELSE IF humidityStatus = "warn" /\ slopePerMinAbove(sl, 500) THEN
    << <<"Humidity trending upward-keep an eye on mold/corrosion risk.">> >>
  ELSE << >>

\* ingest with the filter p.tMs > cutoff: the entry 15 minutes old dropped
ingestStrict(recent, reading) ==
  LET tMs    == DateParse(reading.timestamp)
      pushed == Append(recent, [tMs |-> tMs, reading |-> reading])
      cutoff == tMs - 15 * 60000
  IN SelectSeq(pushed, LAMBDA p : p.tMs > cutoff)

\* ingest(reading): the TrendWindow this.recent after the call
ingest(recent, reading) ==
  LET tMs    == DateParse(reading.timestamp)
      pushed == Append(recent, [tMs |-> tMs, reading |-> reading])
      cutoff == tMs - 15 * 60000
  IN SelectSeq(pushed, LAMBDA p : p.tMs >= cutoff)

accessStatusOf(reading, standards) ==
  IF reading.opensPerHour <= standards.access.maxOpensPerHourSafe THEN "safe"
  ELSE IF reading.opensPerHour <= standards.access.maxOpensPerHourWarn THEN "warn"
  ELSE "danger"

vibrationStatusOf(reading, standards) ==
  IF reading.vibration <= standards.vibration.safeMax THEN "safe"
  ELSE IF reading.vibration <= standards.vibration.warnMax THEN "warn"
  ELSE "danger"

\* The weighted total with the trend amplifiers, before rounding, in
\* 1 / (100 * RiskUnit) of a risk point (the weights are in hundredths).
\* riskAccess = clamp(opensPerHour / max(1, maxOpensPerHourWarn) * 60, 0, 100)
riskAccessOf(reading, standards) ==
  clamp((reading.opensPerHour * 60 * RiskUnit)
          \div Max2(1, standards.access.maxOpensPerHourWarn),
        0, 100 * RiskUnit)

\* riskVibration = clamp(vibration / max(0.01, warnMax) * 60, 0, 100)
riskVibrationOf(reading, standards) ==
  clamp((reading.vibration * 60 * RiskUnit)
          \div Max2(Scale \div 100, standards.vibration.warnMax),
        0, 100 * RiskUnit)

\* The weighted total with the second trend amplifier taken instead of the
\* first, not on top of it
rawRiskScoreElseIf(recent, reading, standards) ==
  LET sl  == slope(humidityPoints(recent))
      one == 100 * RiskUnit
  IN riskFromRange(reading.temperatureC, standards.temperatureC) * 22
       + riskFromRange(reading.humidityPct, standards.humidityPct) * 28
       + riskFromMax(reading.moisturePct, standards.moisturePct) * 22
       + riskAccessOf(reading, standards) * 16
       + riskVibrationOf(reading, standards) * 12
       + (IF slopePerMinAbove(sl, 1500) THEN 12 * one
          ELSE IF slopePerMinAbove(sl, 800) THEN 8 * one ELSE 0)
       + (IF reading.doorState = "open" THEN 4 * one ELSE 0)
       - (IF reading.accessLocked THEN 3 * one ELSE 0)

\* The weighted total and the amplifiers (lines 117-140), in hundredths of a
\* thousandth of a risk point
rawRiskScore(recent, reading, standards) ==
  LET sl            == slope(humidityPoints(recent))
      riskTemp      == riskFromRange(reading.temperatureC, standards.temperatureC)
      riskHumidity  == riskFromRange(reading.humidityPct, standards.humidityPct)
      riskMoisture  == riskFromMax(reading.moisturePct, standards.moisturePct)
      riskAccess    == riskAccessOf(reading, standards)
      riskVibration == riskVibrationOf(reading, standards)
      one           == 100 * RiskUnit
  IN riskTemp * 22 + riskHumidity * 28 + riskMoisture * 22
       + riskAccess * 16 + riskVibration * 12
       + (IF slopePerMinAbove(sl, 800) THEN 8 * one ELSE 0)
       + (IF slopePerMinAbove(sl, 1500) THEN 12 * one ELSE 0)
       + (IF reading.doorState = "open" THEN 4 * one ELSE 0)
       - (IF reading.accessLocked THEN 3 * one ELSE 0)

\* riskScore rounded but not clamped
riskScoreUnclamped(recent, reading, standards) ==
  mathRound(rawRiskScore(recent, reading, standards), 100 * RiskUnit)

\* riskScore = clamp(Math.round(riskScore), 0, 100)
riskScoreOf(recent, reading, standards) ==
  clamp(mathRound(rawRiskScore(recent, reading, standards), 100 * RiskUnit), 0, 100)

\* The insights list with the prediction pushed after the metric sentences
insightsOfPredictionLast(recent, reading, standards) ==
  LET tempStatus      == rangeStatus(reading.temperatureC, standards.temperatureC)
      humidityStatus  == rangeStatus(reading.humidityPct, standards.humidityPct)
      moistureStatus  == maxStatus(reading.moisturePct, standards.moisturePct)
      accessStatus    == accessStatusOf(reading, standards)
      vibrationStatus == vibrationStatusOf(reading, standards)
      sl   == slope(humidityPoints(recent))
      list ==
        (IF tempStatus # "safe"
              THEN << <<"Temperature is", tempStatus, reading.temperatureC,
                        standards.temperatureC.safe>> >> ELSE << >>)
        \o (IF humidityStatus # "safe"
              THEN << <<"Humidity is", humidityStatus, reading.humidityPct,
                        standards.humidityPct.safe>> >> ELSE << >>)
        \o (IF moistureStatus # "safe"
              THEN << <<"Moisture content is", moistureStatus, reading.moisturePct,
                        standards.moisturePct.safeMax>> >> ELSE << >>)
        \o (IF accessStatus # "safe"
              THEN << <<"Repeated access detected", reading.opensPerHour>> >> ELSE << >>)
        \o (IF vibrationStatus # "safe"
              THEN << <<"Vibration is", vibrationStatus, reading.vibration>> >> ELSE << >>)
        \o predictionForHumidity(reading.humidityPct, humidityStatus, sl)
  IN IF Len(list) = 0
       THEN << <<"All conditions look stable. ConserveBot is just monitoring.">> >>
       ELSE list

\* The insights list: the optional prediction, one sentence per metric that
\* is not safe, or the single "stable" sentence.
insightsOf(recent, reading, standards) ==
  LET tempStatus      == rangeStatus(reading.temperatureC, standards.temperatureC)
      humidityStatus  == rangeStatus(reading.humidityPct, standards.humidityPct)
      moistureStatus  == maxStatus(reading.moisturePct, standards.moisturePct)
      accessStatus    == accessStatusOf(reading, standards)
      vibrationStatus == vibrationStatusOf(reading, standards)
      sl   == slope(humidityPoints(recent))
      list ==
        predictionForHumidity(reading.humidityPct, humidityStatus, sl)
        \o (IF tempStatus # "safe"
              THEN << <<"Temperature is", tempStatus, reading.temperatureC,
                        standards.temperatureC.safe>> >> ELSE << >>)
        \o (IF humidityStatus # "safe"
              THEN << <<"Humidity is", humidityStatus, reading.humidityPct,
                        standards.humidityPct.safe>> >> ELSE << >>)
        \o (IF moistureStatus # "safe"
              THEN << <<"Moisture content is", moistureStatus, reading.moisturePct,
                        standards.moisturePct.safeMax>> >> ELSE << >>)
        \o (IF accessStatus # "safe"
              THEN << <<"Repeated access detected", reading.opensPerHour>> >> ELSE << >>)
        \o (IF vibrationStatus # "safe"
              THEN << <<"Vibration is", vibrationStatus, reading.vibration>> >> ELSE << >>)
  IN IF Len(list) = 0
       THEN << <<"All conditions look stable. ConserveBot is just monitoring.">> >>
       ELSE list

\* The humidity actions picked in the other order, whatever the side
candidateActionsAirflowFirst(reading, standards) ==
  IF rangeStatus(reading.humidityPct, standards.humidityPct) # "safe"
    THEN << [type |-> "TRIGGER_AIRFLOW", label |-> "Increase airflow",
             reason |-> <<"Airflow helps stabilize humidity and moisture">>],
            [type |-> "DEHUMIDIFY", label |-> "Trigger dehumidification",
             reason |-> <<"Humidity above target", reading.humidityPct>>] >>
    ELSE << >>

\* The actions with the temperature adjustment proposed in danger only
candidateActionsTempOnDanger(reading, standards) ==
  LET tempStatus     == rangeStatus(reading.temperatureC, standards.temperatureC)
      humidityStatus == rangeStatus(reading.humidityPct, standards.humidityPct)
      accessStatus   == accessStatusOf(reading, standards)
      mid            == (standards.temperatureC.safe[1] + standards.temperatureC.safe[2]) \div 2
      dir            == IF reading.temperatureC > mid THEN "DOWN" ELSE "UP"
  IN (IF humidityStatus = "danger"
         \/ (humidityStatus = "warn" /\ reading.humidityPct > standards.humidityPct.safe[2])
        THEN << [type |-> "DEHUMIDIFY", label |-> "Trigger dehumidification",
                 reason |-> <<"Humidity above target", reading.humidityPct>>],
                [type |-> "TRIGGER_AIRFLOW", label |-> "Increase airflow",
                 reason |-> <<"Airflow helps stabilize humidity and moisture">>] >>
        ELSE IF humidityStatus = "warn" /\ reading.humidityPct < standards.humidityPct.safe[1]
        THEN << [type |-> "HUMIDIFY", label |-> "Add gentle humidification",
                 reason |-> <<"Humidity below target", reading.humidityPct>>] >>
        ELSE << >>)
     \o (IF tempStatus = "danger"
           THEN << [type |-> IF dir = "DOWN" THEN "ADJUST_TEMP_DOWN" ELSE "ADJUST_TEMP_UP",
                    label |-> IF dir = "DOWN" THEN "Cool internal temperature"
                              ELSE "Warm internal temperature",
                    reason |-> <<"Temperature outside ideal zone", reading.temperatureC>>] >>
           ELSE << >>)
     \o (IF accessStatus = "danger"
           THEN << [type |-> "LOCK_ACCESS_10_MIN", label |-> "Lock access for 10 minutes",
                    reason |-> <<"Too many door opens">>] >>
           ELSE << >>)

\* The actions picked before the risk gate.
candidateActions(reading, standards) ==
  LET tempStatus     == rangeStatus(reading.temperatureC, standards.temperatureC)
      humidityStatus == rangeStatus(reading.humidityPct, standards.humidityPct)
      accessStatus   == accessStatusOf(reading, standards)
      mid            == (standards.temperatureC.safe[1] + standards.temperatureC.safe[2]) \div 2
      dir            == IF reading.temperatureC > mid THEN "DOWN" ELSE "UP"
  IN (IF humidityStatus = "danger"
         \/ (humidityStatus = "warn" /\ reading.humidityPct > standards.humidityPct.safe[2])
        THEN << [type |-> "DEHUMIDIFY", label |-> "Trigger dehumidification",
                 reason |-> <<"Humidity above target", reading.humidityPct>>],
                [type |-> "TRIGGER_AIRFLOW", label |-> "Increase airflow",
                 reason |-> <<"Airflow helps stabilize humidity and moisture">>] >>
        ELSE IF humidityStatus = "warn" /\ reading.humidityPct < standards.humidityPct.safe[1]
        THEN << [type |-> "HUMIDIFY", label |-> "Add gentle humidification",
                 reason |-> <<"Humidity below target", reading.humidityPct>>] >>
        ELSE << >>)
     \o (IF tempStatus = "danger" \/ tempStatus = "warn"
           THEN << [type |-> IF dir = "DOWN" THEN "ADJUST_TEMP_DOWN" ELSE "ADJUST_TEMP_UP",
                    label |-> IF dir = "DOWN" THEN "Cool internal temperature"
                              ELSE "Warm internal temperature",
                    reason |-> <<"Temperature outside ideal zone", reading.temperatureC>>] >>
           ELSE << >>)
     \o (IF accessStatus = "danger"
           THEN << [type |-> "LOCK_ACCESS_10_MIN", label |-> "Lock access for 10 minutes",
                    reason |-> <<"Too many door opens">>] >>
           ELSE << >>)

\* finalActions without the gate
finalActionsUngated(riskScore, actions) == actions

\* finalActions = riskScore >= 45 ? actions : []
finalActions(riskScore, actions) == IF riskScore >= 45 THEN actions ELSE << >>

\* evaluate({ reading, standards }) on an engine whose window is recent
evaluate(recent, reading, standards) ==
  LET tempStatus      == rangeStatus(reading.temperatureC, standards.temperatureC)
      humidityStatus  == rangeStatus(reading.humidityPct, standards.humidityPct)
      moistureStatus  == maxStatus(reading.moisturePct, standards.moisturePct)
      accessStatus    == accessStatusOf(reading, standards)
      vibrationStatus == vibrationStatusOf(reading, standards)
      riskScore       == riskScoreOf(recent, reading, standards)
      with(status)    == [status |-> status, color |-> statusToColor(status)]
  IN [ riskScore |-> riskScore,
       riskLevel |-> riskLevel(riskScore),
       statuses  |-> [ temperature |-> with(tempStatus),
                       humidity    |-> with(humidityStatus),
                       moisture    |-> with(moistureStatus),
                       access      |-> with(accessStatus),
                       vibration   |-> with(vibrationStatus) ],
       trends    |-> [ humiditySlopePerMin |->
                         slopePerMinFixed3(slope(humidityPoints(recent))) ],
       insights  |-> insightsOf(recent, reading, standards),
       actions   |-> finalActions(riskScore, candidateActions(reading, standards)) ]

\* --------------------------------------------------------------- the machine

VARIABLES
  sim,      \* the Simulator instance: artifactType, demoMode, controls, state
  now,      \* the value Date.now() returns
  ret,      \* what the last call returned to its caller
  opened,   \* the instants at which the door went from closed to open since
            \* the last _initState, as the returned Readings show them
  fresh,    \* no live tick has run since the last _initState
  steps,    \* calls made so far
  recent,   \* the DecisionEngine instance's window, this.recent
  input,    \* the { reading, standards } the engine's caller holds
  asmt,     \* the Assessments the last two evaluate calls returned for the
            \* reading in input, oldest first (empty: not evaluated yet)
  twin,     \* a second Simulator instance, for comparing two runs
  phase,    \* where the comparison of sim and twin stands
  srv       \* server.js: config, the Store instance and the messages broadcast

simVars == <<sim, now, ret, opened, fresh, steps>>
engVars == <<recent, input, asmt>>
cmpVars == <<twin, phase>>
srvVars == <<srv>>
vars == <<sim, now, ret, opened, fresh, steps, recent, input, asmt, twin, phase, srv>>

NoInput == [kind |-> "none"]
NoAssessment == << >>
NoTwin == [kind |-> "none"]

\* new DecisionEngine(), with nothing evaluated yet
EngineIdle == recent = << >> /\ input = NoInput /\ asmt = NoAssessment
CompareIdle == twin = NoTwin /\ phase = "single"

\* The server around the simulator and the engine is not followed.
NoServer == [kind |-> "none"]
ServerIdle == srv = NoServer

\* The process starts T0 ms after the origin of the model's clock; T0 is a
\* multiple of 30 minutes larger than the seven days generateHistory reaches back.
T0 == 340 * 30 * 60000

MaxSteps == 3

\* Time that passes between two calls.
Elapsed == {1000, 10000, 10 * 60000, 60 * 60000}

Quiet  == [rT |-> 0, rH |-> 0, rM |-> 0, rV |-> 0, uDoor |-> 50, uBump |-> 50, uSize |-> 0]
Toggle == [Quiet EXCEPT !.uDoor = 0]
Rough  == [rT |-> 20000, rH |-> -20000, rM |-> 20000, rV |-> -20000,
           uDoor |-> 4, uBump |-> 0, uSize |-> 50]
NoiseVecs == {Quiet, Toggle, Rough}

StartDraws == {[t |-> 0, h |-> 0, m |-> 0], [t |-> 99, h |-> 99, m |-> 99]}

NoReturn == [kind |-> "none"]

\* The instants at which a run of readings shows the door going from closed
\* to open, given the door state before the first of them.
openingsOf(readings, doorBefore) ==
  { DateParse(readings[k].timestamp) :
      k \in { j \in 1..Len(readings) :
                /\ readings[j].doorState = "open"
                /\ (IF j = 1 THEN doorBefore ELSE readings[j - 1].doorState) = "closed" } }

\* A live tick: the interval elapses and tick() runs with its default argument.
Tick ==
  \E d \in Elapsed, nz \in NoiseVecs :
    /\ steps < MaxSteps
    /\ now' = now + d
    /\ LET r == tick(sim, now + d, nz) IN
         /\ sim' = r.sim
         /\ ret' = [kind |-> "reading", reading |-> r.reading]
         /\ opened' = opened \cup openingsOf(<<r.reading>>, sim.state.doorState)
    /\ fresh' = FALSE
    /\ steps' = steps + 1
    /\ UNCHANGED <<engVars, cmpVars, srvVars>>

ApplyAction ==
  \E a \in ACTION_TYPES \cup {"RECALIBRATE"} :
    /\ steps < MaxSteps
    /\ sim' = applyAction(sim, a, now)
    /\ ret' = [kind |-> "applied", actionType |-> a]
    /\ steps' = steps + 1
    /\ UNCHANGED <<now, opened, fresh, engVars, cmpVars, srvVars>>

SetArtifactType ==
  \E t \in ARTIFACT_TYPES, d \in StartDraws :
    /\ steps < MaxSteps
    /\ sim' = setArtifactType(sim, t, now, d)
    /\ ret' = [kind |-> "set", call |-> "setArtifactType", arg |-> t]
    /\ opened' = {}
    /\ fresh' = TRUE
    /\ steps' = steps + 1
    /\ UNCHANGED <<now, engVars, cmpVars, srvVars>>

SetDemoMode ==
  \E m \in DEMO_MODES, d \in StartDraws :
    /\ steps < MaxSteps
    /\ sim' = setDemoMode(sim, m, now, d)
    /\ ret' = [kind |-> "set", call |-> "setDemoMode", arg |-> m]
    /\ opened' = {}
    /\ fresh' = TRUE
    /\ steps' = steps + 1
    /\ UNCHANGED <<now, engVars, cmpVars, srvVars>>

\* What generateHistory() returns, as the caller receives it.
historyReturn(h) ==
  [kind |-> "history", history24h |-> h.history24h, history7d |-> h.history7d]

\* Module load of server.js (lines 24-30): the simulator is constructed with
\* config = {FOSSILS, normal} and generateHistory() is called on it at once.
Init ==
  /\ now = T0
  /\ \E d \in StartDraws, nzA \in {Quiet, Rough} :
       LET h == generateHistory(construct("FOSSILS", "normal", T0, d), T0, nzA, Quiet) IN
         /\ sim = h.sim
         /\ ret = historyReturn(h)
         /\ opened = openingsOf(h.history24h \o h.history7d, "closed")
  /\ fresh = TRUE
  /\ steps = 0
  /\ EngineIdle
  /\ CompareIdle
  /\ ServerIdle

Next == Tick \/ ApplyAction \/ SetArtifactType \/ SetDemoMode

Spec == Init /\ [][Next]_vars

\* ------------------------------------------------- the engine on its own
\* The DecisionEngine driven as the main loop of server.js drives it (lines
\* 141-148): a Reading is ingested, then evaluated against the standards of the
\* configured artifact type.  The simulator stands still meanwhile.

SimIdle ==
  /\ sim = construct("FOSSILS", "normal", T0, [t |-> 50, h |-> 50, m |-> 50])
  /\ now = T0
  /\ ret = NoReturn
  /\ opened = {}
  /\ fresh = TRUE
  /\ steps = 0

\* Values a Reading can carry (model units).
TempGrid  == {149000, 190000, 219000, 350000}
HumGrid   == {50000, 330000, 450000, 550000, 580000}
MoistGrid == {20000, 45000, 200000}
OpensGrid == {0, 3, 9}
VibGrid   == {0, 4500, Scale}
\* doorState and accessLocked: a locked case is never left open by tick
DoorLock  == {<<"closed", FALSE>>, <<"open", FALSE>>, <<"closed", TRUE>>}
\* Humidity change over the minute before the reading (empty: no earlier reading)
\* A second entry is the time between the two readings when it is not a minute.
Trends    == {<< >>, <<1000>>, <<2000>>, <<-2000>>, <<2000, 0>>}

MaxIngests == 1

readingOf(tMs, t, h, m, o, v, dl) ==
  [ timestamp    |-> toISOString(tMs),
    temperatureC |-> t,
    humidityPct  |-> h,
    moisturePct  |-> m,
    doorState    |-> dl[1],
    opensPerHour |-> o,
    vibration    |-> v,
    accessLocked |-> dl[2] ]

\* The window after the earlier reading of a trend (if any) and then r were ingested.
windowOf(r, tr) ==
  IF Len(tr) = 0 THEN ingest(<< >>, r)
  ELSE LET tMs  == DateParse(r.timestamp)
           gap  == IF Len(tr) > 1 THEN tr[2] ELSE 60000
           prev == [r EXCEPT !.timestamp = toISOString(tMs - gap),
                             !.humidityPct = clamp(r.humidityPct - tr[1], 5 * Scale, 95 * Scale)]
       IN ingest(ingest(<< >>, prev), r)

EvalInit ==
  /\ SimIdle
  /\ CompareIdle
  /\ ServerIdle
  /\ \E type \in ARTIFACT_TYPES, t \in TempGrid, h \in HumGrid, m \in MoistGrid,
        o \in OpensGrid, v \in VibGrid, dl \in DoorLock, tr \in Trends :
       LET r == readingOf(T0, t, h, m, o, v, dl) IN
         /\ input = [kind |-> "input", reading |-> r, standards |-> getStandards(type)]
         /\ recent = windowOf(r, tr)
  /\ asmt = NoAssessment

\* The caller's record of what evaluate returned, after one more return.
returned(seen, assessment) ==
  IF Len(seen) = 0 THEN <<assessment>> ELSE <<seen[Len(seen)], assessment>>

\* evaluate pruning the window it has read
EvaluatePruning ==
  /\ input # NoInput
  /\ asmt' = returned(asmt, evaluate(recent, input.reading, input.standards))
  /\ recent' = SelectSeq(recent, LAMBDA p : p.tMs > DateParse(input.reading.timestamp) - 60000)
  /\ UNCHANGED <<input, simVars, cmpVars, srvVars>>

\* engine.evaluate({ reading, standards }): this.recent is read, never assigned
Evaluate ==
  /\ input # NoInput
  /\ asmt' = returned(asmt, evaluate(recent, input.reading, input.standards))
  /\ UNCHANGED <<recent, input, simVars, cmpVars, srvVars>>

\* The next reading arrives d ms later with its humidity moved by dh, and is ingested.
Ingest ==
  \E d \in {1000, 15 * 60000}, dh \in {3000} :
    /\ input # NoInput
    /\ Len(recent) > 0
    /\ DateParse(input.reading.timestamp) < T0 + MaxIngests * 1000
    /\ LET tMs == DateParse(input.reading.timestamp) + d
           r   == [input.reading EXCEPT
                     !.timestamp = toISOString(tMs),
                     !.humidityPct = clamp(input.reading.humidityPct + dh, 5 * Scale, 95 * Scale)]
       IN /\ input' = [input EXCEPT !.reading = r]
          /\ recent' = ingest(recent, r)
    /\ asmt' = NoAssessment
    /\ UNCHANGED <<simVars, cmpVars, srvVars>>

NextEval == Evaluate \/ Ingest

SpecEval == EvalInit /\ [][NextEval]_vars

\* The Assessment of the last evaluate call.
Evaluated == Len(asmt) > 0
lastAssessment == asmt[Len(asmt)]

\* C2: every Assessment with riskScore < 45 has an empty actions list, whatever
\* the statuses are; a non-empty actions list comes with riskScore >= 45 only.
C2_ActionsGated ==
  Evaluated =>
    /\ lastAssessment.riskScore < 45 => lastAssessment.actions = << >>
    /\ lastAssessment.actions # << >> => lastAssessment.riskScore >= 45

\* An Assessment below 45 with a metric in danger and actions picked before the gate.
C2_Witness ==
  /\ Evaluated
  /\ lastAssessment.riskScore < 45
  /\ \E k \in DOMAIN lastAssessment.statuses : lastAssessment.statuses[k].status = "danger"
  /\ candidateActions(input.reading, input.standards) # << >>
  /\ lastAssessment.actions = << >>

\* C3: for every reading within the physical bounds, every entry of the
\* standards table and every window, riskScore is an integer from 0 to 100.
C3_ScoreRange ==
  Evaluated => lastAssessment.riskScore \in 0..100

\* An Assessment whose weighted total with amplifiers is above 100 before the clamp.
C3_Witness ==
  /\ Evaluated
  /\ rawRiskScore(recent, input.reading, input.standards) > 100 * 100 * RiskUnit
  /\ lastAssessment.riskScore = 100

\* C5: riskLevel is LOW iff riskScore <= 29, MEDIUM iff 30..59, HIGH iff
\* 60..79 and CRITICAL iff riskScore >= 80.
C5_LevelBoundaries ==
  Evaluated =>
    LET a == lastAssessment IN
      /\ a.riskLevel = "LOW" <=> a.riskScore <= 29
      /\ a.riskLevel = "MEDIUM" <=> (30 <= a.riskScore /\ a.riskScore <= 59)
      /\ a.riskLevel = "HIGH" <=> (60 <= a.riskScore /\ a.riskScore <= 79)
      /\ a.riskLevel = "CRITICAL" <=> a.riskScore >= 80

\* An Assessment exactly on a boundary: score 60 is HIGH.
C5_Witness ==
  Evaluated /\ lastAssessment.riskScore = 60 /\ lastAssessment.riskLevel = "HIGH"

\* How far a value lies from its safe band, and on which side.
bandDistance(x, band) ==
  IF x < band.safe[1] THEN band.safe[1] - x
  ELSE IF x > band.safe[2] THEN x - band.safe[2] ELSE 0
bandSide(x, band) ==
  IF x < band.safe[1] THEN "below" ELSE IF x > band.safe[2] THEN "above" ELSE "inside"
maxDistance(x, safeMax) == Max2(0, x - safeMax)

\* The readings that differ from r in one metric only, with how far that metric
\* lies from its safe band in r (near) and in the other reading (far), and
\* whether the two values lie on the same side of the band.
oneMetricMoved(r, std) ==
  { [ reading |-> [r EXCEPT !.temperatureC = x],
      near |-> bandDistance(r.temperatureC, std.temperatureC),
      far  |-> bandDistance(x, std.temperatureC),
      sameSide |-> bandSide(x, std.temperatureC) = bandSide(r.temperatureC, std.temperatureC)
                     \/ bandSide(r.temperatureC, std.temperatureC) = "inside" ] : x \in TempGrid }
  \cup
  { [ reading |-> [r EXCEPT !.humidityPct = x],
      near |-> bandDistance(r.humidityPct, std.humidityPct),
      far  |-> bandDistance(x, std.humidityPct),
      sameSide |-> bandSide(x, std.humidityPct) = bandSide(r.humidityPct, std.humidityPct)
                     \/ bandSide(r.humidityPct, std.humidityPct) = "inside" ] : x \in HumGrid }
  \cup
  { [ reading |-> [r EXCEPT !.moisturePct = x],
      near |-> maxDistance(r.moisturePct, std.moisturePct.safeMax),
      far  |-> maxDistance(x, std.moisturePct.safeMax),
      sameSide |-> TRUE ] : x \in MoistGrid }
  \cup
  { [ reading |-> [r EXCEPT !.opensPerHour = x],
      near |-> maxDistance(r.opensPerHour, std.access.maxOpensPerHourSafe),
      far  |-> maxDistance(x, std.access.maxOpensPerHourSafe),
      sameSide |-> TRUE ] : x \in OpensGrid }
  \cup
  { [ reading |-> [r EXCEPT !.vibration = x],
      near |-> maxDistance(r.vibration, std.vibration.safeMax),
      far  |-> maxDistance(x, std.vibration.safeMax),
      sameSide |-> TRUE ] : x \in VibGrid }

\* C4 as stated: with everything else fixed, the reading whose one moved metric
\* lies at greater distance from its safe band never gets a lower riskScore.
C4_MonotoneAnySide ==
  Evaluated =>
    \A m \in oneMetricMoved(input.reading, input.standards) :
      m.far > m.near =>
        riskScoreOf(recent, m.reading, input.standards) >= lastAssessment.riskScore

\* C4, amended: with everything else fixed, the reading whose one moved metric
\* lies at greater distance from its safe band on the same side of the band
\* never gets a lower riskScore.
C4_MonotoneSameSide ==
  Evaluated =>
    \A m \in oneMetricMoved(input.reading, input.standards) :
      (m.far > m.near /\ m.sameSide) =>
        riskScoreOf(recent, m.reading, input.standards) >= lastAssessment.riskScore

\* A reading out of its safe band and a second one further out on the same
\* side, which scores strictly higher.
C4_Witness ==
  /\ Evaluated
  /\ \E m \in oneMetricMoved(input.reading, input.standards) :
       /\ m.near > 0 /\ m.far > m.near /\ m.sameSide
       /\ riskScoreOf(recent, m.reading, input.standards) > lastAssessment.riskScore

TempCases ==
  { [temperatureC |-> 5 * Scale,  tempBiasC |-> -150000],
    [temperatureC |-> 20 * Scale, tempBiasC |-> 0],
    [temperatureC |-> 35 * Scale, tempBiasC |-> 150000] }
HumCases ==
  { [humidityPct |-> 5 * Scale,       humidityBiasPct |-> -400000],
    [humidityPct |-> 5 * Scale + 100, humidityBiasPct |-> 0],
    [humidityPct |-> 50 * Scale,      humidityBiasPct |-> 0],
    [humidityPct |-> 95 * Scale,      humidityBiasPct |-> 400000] }
MoistCases   == {1000, 30000}
AirflowCases == {0, 9000}
VibCases     == {0, Scale}

\* randn() at eight standard deviations, with a vibration bump
WildUp   == [rT |-> 80000, rH |-> 80000, rM |-> 80000, rV |-> 80000,
             uDoor |-> 99, uBump |-> 0, uSize |-> 99]
WildDown == [rT |-> -80000, rH |-> -80000, rM |-> -80000, rV |-> -80000,
             uDoor |-> 99, uBump |-> 99, uSize |-> 0]

MaxPhysTicks == 1

PhysInit ==
  /\ \E type \in ARTIFACT_TYPES, mode \in DEMO_MODES, tc \in TempCases, hc \in HumCases,
        m \in MoistCases, af \in AirflowCases, v \in VibCases :
       sim = [ artifactType |-> type,
               demoMode     |-> mode,
               controls     |-> [ tempBiasC |-> tc.tempBiasC,
                                  humidityBiasPct |-> hc.humidityBiasPct,
                                  airflowBoost |-> af,
                                  accessLockedUntilMs |-> 0 ],
               state        |-> [ temperatureC |-> tc.temperatureC,
                                  humidityPct |-> hc.humidityPct,
                                  moisturePct |-> m,
                                  doorState |-> "closed",
                                  lastDoorToggleMs |-> T0 - 60000,
                                  opensInLastHour |-> << >>,
                                  vibration |-> v ] ]
  /\ now = T0
  /\ ret = NoReturn
  /\ opened = {}
  /\ fresh = FALSE
  /\ steps = 0
  /\ EngineIdle
  /\ CompareIdle
  /\ ServerIdle

\* One more live tick of the main loop, with any noise.
PhysTick ==
  \E nz \in NoiseVecs \cup {WildUp, WildDown} :
    /\ phase = "single"
    /\ steps < MaxPhysTicks
    /\ now' = now + 1000
    /\ LET r == tick(sim, now + 1000, nz) IN
         /\ sim' = r.sim
         /\ ret' = [kind |-> "reading", reading |-> r.reading]
         /\ opened' = opened \cup openingsOf(<<r.reading>>, sim.state.doorState)
    /\ steps' = steps + 1
    /\ UNCHANGED <<fresh, engVars, cmpVars, srvVars>>

\* A second simulator is put in the state of the first.
Fork ==
  /\ phase = "single"
  /\ twin' = [kind |-> "copy", sim |-> sim]
  /\ phase' = "forked"
  /\ UNCHANGED <<simVars, engVars, srvVars>>

\* applyAction("DEHUMIDIFY") on the first simulator only
DehumidifyOne ==
  /\ phase = "forked"
  /\ sim' = applyAction(sim, "DEHUMIDIFY", now)
  /\ ret' = [kind |-> "applied", actionType |-> "DEHUMIDIFY"]
  /\ phase' = "acted"
  /\ UNCHANGED <<now, opened, fresh, steps, engVars, twin, srvVars>>

\* tick(nowMs) on both simulators with the same nowMs, every randn() at 0 and
\* every Math.random() above the toggle and bump chances
TickBoth ==
  /\ phase = "acted"
  /\ now' = now + 1000
  /\ LET a == tick(sim, now + 1000, Quiet)
         b == tick(twin.sim, now + 1000, Quiet)
     IN /\ sim' = a.sim
        /\ ret' = [kind |-> "reading", reading |-> a.reading]
        /\ twin' = [kind |-> "ticked", sim |-> b.sim, reading |-> b.reading]
  /\ phase' = "compared"
  /\ UNCHANGED <<opened, fresh, steps, engVars, srvVars>>

NextPhys == PhysTick \/ Fork \/ DehumidifyOne \/ TickBoth

SpecPhys == PhysInit /\ [][NextPhys]_vars

inPhysicalBounds(r) ==
  /\ 5 * Scale <= r.temperatureC /\ r.temperatureC <= 35 * Scale
  /\ 5 * Scale <= r.humidityPct /\ r.humidityPct <= 95 * Scale
  /\ 0 <= r.moisturePct /\ r.moisturePct <= 20 * Scale
  /\ 0 <= r.vibration /\ r.vibration <= Scale

\* C1: every Reading tick returns (to a caller, into the history series, from
\* either simulator) has temperatureC in [5,35], humidityPct in [5,95],
\* moisturePct in [0,20] and vibration in [0,1].
C1_ReadingBounds ==
  /\ ret.kind = "reading" => inPhysicalBounds(ret.reading)
  /\ ret.kind = "history" =>
       /\ \A i \in 1..Len(ret.history24h) : inPhysicalBounds(ret.history24h[i])
       /\ \A i \in 1..Len(ret.history7d) : inPhysicalBounds(ret.history7d[i])
  /\ twin.kind = "ticked" => inPhysicalBounds(twin.reading)

\* A Reading at the top of the temperature range while the bias pushes up,
\* and at the bottom of the humidity range while the bias pushes down.
C1_Witness ==
  /\ ret.kind = "reading"
  /\ ret.reading.temperatureC = 35 * Scale /\ sim.controls.tempBiasC > 0
  /\ ret.reading.humidityPct = 5 * Scale /\ sim.controls.humidityBiasPct < 0

\* C10 as stated: after DEHUMIDIFY on one of two simulators in the same state
\* and one noise-free tick of both at the same timestamp, the humidity of the
\* one that received the action is strictly lower.
C10_StrictlyLower ==
  phase = "compared" => sim.state.humidityPct < twin.sim.state.humidityPct

\* C10, amended: the humidity of the simulator that received the action is
\* never higher, and is strictly lower unless the clamp to [5,95] leaves both
\* at the same bound; the humidityPct of its Reading is never higher.
C10_LowerUnlessClamped ==
  phase = "compared" =>
    /\ sim.state.humidityPct <= twin.sim.state.humidityPct
    /\ sim.state.humidityPct = twin.sim.state.humidityPct =>
         twin.sim.state.humidityPct \in {5 * Scale, 95 * Scale}
    /\ ret.reading.humidityPct <= twin.reading.humidityPct

\* The action lowers the humidity of its simulator, away from the bounds.
C10_Witness ==
  /\ phase = "compared"
  /\ sim.state.humidityPct < twin.sim.state.humidityPct
  /\ twin.sim.state.humidityPct < 95 * Scale
  /\ sim.state.humidityPct > 5 * Scale

\* ------------------------------------------ the server with its config route
\* The simulator as server.js drives it: module load, live ticks of the main
\* loop, applyAction calls, and POST /api/config, which rebuilds the state and
\* regenerates the history in one handler.

MaxHistSteps == 2

\* The { artifactType, demoMode } bodies posted; both fields pass the
\* validation of lines 109-114.
ConfigBodies == { [artifactType |-> "ORGANIC", demoMode |-> "atRisk"],
                  [artifactType |-> "STONE", demoMode |-> "remediation"] }

HistInit ==
  /\ now = T0
  /\ LET h == generateHistory(construct("FOSSILS", "normal", T0, [t |-> 50, h |-> 50, m |-> 50]),
                              T0, Rough, Quiet) IN
       /\ sim = h.sim
       /\ ret = historyReturn(h)
       /\ opened = openingsOf(h.history24h \o h.history7d, "closed")
  /\ fresh = TRUE
  /\ steps = 0
  /\ EngineIdle
  /\ CompareIdle
  /\ ServerIdle

\* POST /api/config with a valid body
PostConfig ==
  \E body \in ConfigBodies :
    /\ body.artifactType \in ARTIFACT_TYPES
    /\ body.demoMode \in DEMO_MODES
    /\ steps < MaxHistSteps
    /\ LET d  == [t |-> 50, h |-> 50, m |-> 50]
           s1 == setArtifactType(sim, body.artifactType, now, d)
           s2 == setDemoMode(s1, body.demoMode, now, d)
           h  == generateHistory(s2, now, Rough, Toggle)
       IN /\ sim' = h.sim
          /\ ret' = historyReturn(h)
          /\ opened' = openingsOf(h.history24h \o h.history7d, "closed")
    /\ fresh' = TRUE
    /\ steps' = steps + 1
    /\ UNCHANGED <<now, engVars, cmpVars, srvVars>>

\* A live tick of the main loop, a minute after the last call.
HistTick ==
  \E nz \in NoiseVecs :
    /\ steps < MaxHistSteps
    /\ now' = now + 60000
    /\ LET r == tick(sim, now + 60000, nz) IN
         /\ sim' = r.sim
         /\ ret' = [kind |-> "reading", reading |-> r.reading]
         /\ opened' = opened \cup openingsOf(<<r.reading>>, sim.state.doorState)
    /\ fresh' = FALSE
    /\ steps' = steps + 1
    /\ UNCHANGED <<engVars, cmpVars, srvVars>>

\* simulator.applyAction(action.type), any of the action types
HistApply ==
  \E a \in ACTION_TYPES :
    /\ steps < MaxHistSteps
    /\ sim' = applyAction(sim, a, now)
    /\ ret' = [kind |-> "applied", actionType |-> a]
    /\ steps' = steps + 1
    /\ UNCHANGED <<now, opened, fresh, engVars, cmpVars, srvVars>>

NextHist == PostConfig \/ HistTick \/ HistApply

SpecHist == HistInit /\ [][NextHist]_vars

\* The door-open events since the last reset that lie in the hour up to t.
opensWithin(t) == { e \in opened : t - 60 * 60000 <= e /\ e <= t }
countsTrailingHour(r) ==
  r.opensPerHour = Cardinality(opensWithin(DateParse(r.timestamp)))

\* C7: the opensPerHour of every Reading tick(t) produces, live or back-dated,
\* is the number of door-open events since the last state reset with a
\* timestamp in [t - 3,600,000, t].
C7_OpensPerHour ==
  /\ ret.kind = "reading" => countsTrailingHour(ret.reading)
  /\ ret.kind = "history" =>
       /\ \A i \in 1..Len(ret.history24h) : countsTrailingHour(ret.history24h[i])
       /\ \A i \in 1..Len(ret.history7d) : countsTrailingHour(ret.history7d[i])

\* A Reading that counts the opening of its own tick and leaves out one more
\* than an hour old.
C7_Witness ==
  /\ ret.kind = "reading"
  /\ ret.reading.opensPerHour = 1
  /\ now \in opened
  /\ \E e \in opened : e < now - 60 * 60000

untilOf(s) == s.controls.accessLockedUntilMs

\* C8: no operation lowers accessLockedUntil, and applyAction(LOCK_ACCESS_10_MIN)
\* at time now sets it to max(previous value, now + 10 minutes).
C8_LockMonotone ==
  [][ /\ untilOf(sim') >= untilOf(sim)
      /\ (ret'.kind = "applied" /\ ret'.actionType = "LOCK_ACCESS_10_MIN") =>
           untilOf(sim') = Max2(untilOf(sim), now + 10 * 60000) ]_vars

\* A lock still in force after POST /api/config has rebuilt the state.
C8_Witness ==
  /\ ret.kind = "history"
  /\ steps > 0
  /\ untilOf(sim) > now

\* C9: generateHistory returns 1441 Readings for 24h and 337 for 7d, each
\* series with non-decreasing timestamps, one minute and thirty minutes apart,
\* ending at the call time.
C9_HistoryShape ==
  ret.kind = "history" =>
    LET at(h, i) == DateParse(h[i].timestamp) IN
      /\ Len(ret.history24h) = 1441
      /\ Len(ret.history7d) = 337
      /\ \A i \in 1..(Len(ret.history24h) - 1) :
           /\ at(ret.history24h, i) <= at(ret.history24h, i + 1)
           /\ at(ret.history24h, i + 1) - at(ret.history24h, i) = 60000
      /\ \A i \in 1..(Len(ret.history7d) - 1) :
           /\ at(ret.history7d, i) <= at(ret.history7d, i + 1)
           /\ at(ret.history7d, i + 1) - at(ret.history7d, i) = 30 * 60000
      /\ at(ret.history24h, Len(ret.history24h)) = now
      /\ at(ret.history7d, Len(ret.history7d)) = now

\* The history POST /api/config regenerated after a live tick.
C9_Witness ==
  /\ ret.kind = "history"
  /\ now > T0
  /\ sim.artifactType = "STONE"

\* The action types of an actions list, in list order.
typesOf(actions) == [i \in 1..Len(actions) |-> actions[i].type]
hasType(actions, type) == \E i \in 1..Len(actions) : actions[i].type = type

\* C11: in every Assessment with riskScore >= 45, humidity in danger or in
\* warn above the safe band gives a list that begins DEHUMIDIFY,
\* TRIGGER_AIRFLOW and has no HUMIDIFY; humidity in warn below the safe band
\* gives HUMIDIFY and neither of the other two; safe humidity gives none of
\* the three; METALLIC at humidity 55 is in danger and gets the first list.
C11_HumidityActions ==
  (Evaluated /\ lastAssessment.riskScore >= 45) =>
    LET a    == lastAssessment.actions
        hs   == lastAssessment.statuses.humidity.status
        h    == input.reading.humidityPct
        safe == input.standards.humidityPct.safe
        dry  == Len(a) >= 2 /\ a[1].type = "DEHUMIDIFY" /\ a[2].type = "TRIGGER_AIRFLOW"
                  /\ ~hasType(a, "HUMIDIFY")
    IN /\ (hs = "danger" \/ (hs = "warn" /\ h > safe[2])) => dry
       /\ (hs = "warn" /\ h < safe[1]) =>
            /\ hasType(a, "HUMIDIFY")
            /\ ~hasType(a, "DEHUMIDIFY") /\ ~hasType(a, "TRIGGER_AIRFLOW")
       /\ hs = "safe" =>
            /\ ~hasType(a, "HUMIDIFY")
            /\ ~hasType(a, "DEHUMIDIFY") /\ ~hasType(a, "TRIGGER_AIRFLOW")
       /\ (input.standards = getStandards("METALLIC") /\ h = 55 * Scale) =>
            hs = "danger" /\ dry

\* The METALLIC reading at humidity 55 with riskScore >= 45 and its two actions.
C11_Witness ==
  /\ Evaluated
  /\ lastAssessment.riskScore >= 45
  /\ input.standards = getStandards("METALLIC")
  /\ input.reading.humidityPct = 55 * Scale
  /\ lastAssessment.statuses.humidity.status = "danger"
  /\ Len(lastAssessment.actions) >= 2
  /\ typesOf(lastAssessment.actions)[1] = "DEHUMIDIFY"
  /\ typesOf(lastAssessment.actions)[2] = "TRIGGER_AIRFLOW"

\* C12: applyAction leaves the physical state, artifactType and demoMode as
\* they were and returns no Reading, for every action type; for a type outside
\* the six known ones it leaves the four controls as they were too.
C12_ApplyActionFrame ==
  [][ ret'.kind = "applied" =>
        /\ sim'.state = sim.state
        /\ sim'.artifactType = sim.artifactType
        /\ sim'.demoMode = sim.demoMode
        /\ ret'.actionType \notin ACTION_TYPES => sim'.controls = sim.controls ]_vars

\* The lock applied while the door stands open: the door is still open.
C12_Witness ==
  /\ ret.kind = "applied"
  /\ ret.actionType = "LOCK_ACCESS_10_MIN"
  /\ untilOf(sim) > now
  /\ sim.state.doorState = "open"

\* C13: setArtifactType keeps demoMode, setDemoMode keeps artifactType, and
\* each leaves the physical state as construction with the resulting
\* parameters would: door closed, no recorded opens, vibration 0, and
\* temperature, humidity and moisture drawn from the start ranges of the demo
\* mode around the baselines of the artifact type.
C13_SettersReinitialise ==
  [][ ret'.kind = "set" =>
        /\ ret'.call = "setArtifactType" =>
             sim'.artifactType = ret'.arg /\ sim'.demoMode = sim.demoMode
        /\ ret'.call = "setDemoMode" =>
             sim'.demoMode = ret'.arg /\ sim'.artifactType = sim.artifactType
        /\ sim'.state.doorState = "closed"
        /\ sim'.state.opensInLastHour = << >>
        /\ sim'.state.vibration = 0
        /\ \E d \in InitDraws :
             sim'.state = construct(sim'.artifactType, sim'.demoMode, now', d).state ]_vars

\* setDemoMode on a simulator whose artifact type was changed before: the
\* type is kept.
C13_Witness ==
  /\ ret.kind = "set"
  /\ ret.call = "setDemoMode"
  /\ sim.artifactType = "STONE"
  /\ sim.demoMode = "remediation"
  /\ sim.state.doorState = "closed"
  /\ steps = MaxSteps

\* C14 as stated: after setArtifactType or setDemoMode the four controls have
\* their construction values, as in a freshly constructed simulator.
C14_ControlsReset ==
  ret.kind = "set" =>
    sim.controls = construct(sim.artifactType, sim.demoMode, now, [t |-> 0, h |-> 0, m |-> 0]).controls

\* C15: a tick, and a whole generateHistory call, leave the four controls
\* (tempBiasC, humidityBiasPct, airflowBoost, accessLockedUntilMs) as they
\* were before it.
C15_TicksKeepControls ==
  [][ ret'.kind \in {"reading", "history"} => sim'.controls = sim.controls ]_vars

\* generateHistory has run on a simulator whose airflow and lock controls
\* were set before by an action, and they are still set.
C15_Witness ==
  /\ ret.kind = "history"
  /\ steps = MaxHistSteps
  /\ sim.controls.airflowBoost > 0
  /\ sim.controls.accessLockedUntilMs > 0 \/ sim.controls.humidityBiasPct < 0

\* C16: the Reading of tick(now) has accessLocked exactly when
\* accessLockedUntilMs > now; a locked Reading shows the door closed; a locked
\* tick appends no door-open event, so opensPerHour is not larger than the
\* window held before the tick, nor than the opensPerHour of a locked Reading
\* returned just before.
C16_LockedReadings ==
  [][ ret'.kind = "reading" =>
        LET r == ret'.reading
            before == sim.state.opensInLastHour
            after  == sim'.state.opensInLastHour
        IN /\ r.accessLocked <=> sim.controls.accessLockedUntilMs > now'
           /\ r.accessLocked =>
                /\ r.doorState = "closed"
                /\ sim'.state.doorState = "closed"
                /\ now' \notin opened'
                /\ \A k \in 1..Len(after) : \E j \in 1..Len(before) : after[k] = before[j]
                /\ Len(after) <= Len(before)
                /\ r.opensPerHour <= Len(before)
                /\ (ret.kind = "reading" /\ ret.reading.accessLocked)
                     => r.opensPerHour <= ret.reading.opensPerHour ]_vars

\* A locked tick has forced an open door closed: the Reading is locked and
\* closed and the door's last toggle is the instant of this tick.
C16_Witness ==
  /\ ret.kind = "reading"
  /\ ret.reading.accessLocked
  /\ ret.reading.doorState = "closed"
  /\ sim.state.lastDoorToggleMs = now
  /\ untilOf(sim) > now

\* C17 as stated: with access not locked at the instant of the tick, some
\* draw of Math.random() toggles the door in tick(now + d) exactly when
\* now + d - lastDoorToggleMs >= 10,000 ms; in particular at exactly 10,000 ms.
C17_ToggleFromTenSeconds ==
  \A d \in Elapsed :
    ~accessLockedAt(sim.controls, now + d) =>
      ( (\E nz \in NoiseVecs :
           tick(sim, now + d, nz).sim.state.doorState # sim.state.doorState)
        <=> now + d - sim.state.lastDoorToggleMs >= 10000 )

\* C18: after ingest(reading) with timestamp t the window ends with the
\* ingested reading, every entry has tMs >= t - 900,000, and the entries
\* before the last are the earlier window without its oldest entries, in the
\* same order, each entry left out being older than t - 900,000 (so, for
\* timestamps that never decrease, the window is the ingested readings of the
\* trailing 15 minutes).
C18_TrendWindow ==
  [][ input' # input =>
        LET r       == input'.reading
            t       == DateParse(r.timestamp)
            n       == Len(recent')
            dropped == Len(recent) - (n - 1)
        IN /\ n > 0
           /\ recent'[n] = [tMs |-> t, reading |-> r]
           /\ \A k \in 1..n : recent'[k].tMs >= t - 900000
           /\ \A k \in 1..(n - 1) : recent'[k].tMs <= recent'[k + 1].tMs
           /\ dropped >= 0
           /\ \A k \in 1..(n - 1) : recent'[k] = recent[dropped + k]
           /\ \A j \in 1..dropped : recent[j].tMs < t - 900000 ]_vars

\* A reading was ingested exactly 15 minutes after the one before it, which
\* is still in the window, at its very start.
C18_Witness ==
  /\ Len(recent) = 2
  /\ recent[2].reading = input.reading
  /\ recent[1].tMs = recent[2].tMs - 900000

\* ------------------------------------------------ store.js and the main loop
\* srv = [config, store, sent]: the config object of server.js, the fields of
\* its Store instance, and every message broadcast so far, in order.

\* The Store's live field before the first setLive
NoLive == [kind |-> "null"]

\* new Store()
newStore == [live |-> NoLive, history24h |-> << >>, history7d |-> << >>, logs |-> << >>]

\* splice(0, length - max): the last max entries of arr
lastEntries(arr, max) ==
  IF Len(arr) > max THEN SubSeq(arr, Len(arr) - max + 1, Len(arr)) ELSE arr

setHistory(store, h) ==
  [store EXCEPT !.history24h = h.history24h, !.history7d = h.history7d]

setLive(store, snapshot) == [store EXCEPT !.live = snapshot]

pushLog(store, entry) ==
  [store EXCEPT !.logs = lastEntries(Append(store.logs, entry), 500)]

appendToHistory(store, range, point) ==
  IF range = "7d"
    THEN [store EXCEPT !.history7d = lastEntries(Append(store.history7d, point), 400)]
    ELSE [store EXCEPT !.history24h = lastEntries(Append(store.history24h, point), 2000)]

broadcast(server, msg) == [server EXCEPT !.sent = Append(server.sent, msg)]

logEvent(server, entry) ==
  broadcast([server EXCEPT !.store = pushLog(server.store, entry)],
            [type |-> "log", data |-> entry])

\* The log entry of applyActions for one action (its id is a random UUID and
\* is left out).
remediationEntry(action, reading, nowMs) ==
  [ timestamp  |-> toISOString(nowMs),
    kind       |-> "AUTO_REMEDIATION",
    actionType |-> action.type,
    label      |-> action.label,
    reason     |-> action.reason,
    context    |-> [ temperatureC |-> reading.temperatureC,
                     humidityPct  |-> reading.humidityPct,
                     moisturePct  |-> reading.moisturePct,
                     opensPerHour |-> reading.opensPerHour,
                     vibration    |-> reading.vibration ] ]

\* The for loop of applyActions from its i-th action on; st = [sim, server].
RECURSIVE applyFrom(_, _, _, _, _)
applyFrom(st, actions, reading, nowMs, i) ==
  IF i > Len(actions) THEN st
  ELSE applyFrom(
         [ sim    |-> applyAction(st.sim, actions[i].type, nowMs),
           server |-> logEvent(st.server, remediationEntry(actions[i], reading, nowMs)) ],
         actions, reading, nowMs, i + 1)

\* applyActions stopping after the first action
applyActionsFirstOnly(st, actions, reading, nowMs) ==
  applyFrom(st, SubSeq(actions, 1, Min2(1, Len(actions))), reading, nowMs, 1)

\* applyActions(actions, reading)
applyActions(st, actions, reading, nowMs) ==
  applyFrom(st, actions, reading, nowMs, 1)

MaxLoopSteps == 3

\* The draws of the main loop's ticks.
LoopNoise == {Toggle, Rough}

\* The bodies posted to /api/config; "" stands for a field the body lacks.
\* The draws of the ticks of a regenerated 24-hour series.
HistoryNoise == {Rough, Quiet}

LoopBodies == { [artifactType |-> "STONE", demoMode |-> "remediation"],
                [artifactType |-> "", demoMode |-> "atRisk"],
                [artifactType |-> "GLASS", demoMode |-> "atRisk"],
                [artifactType |-> "STONE", demoMode |-> "turbo"] }

\* Module load of server.js (lines 21-30), one second before T0.
LoopInit ==
  /\ now = T0 - 1000
  /\ LET h == generateHistory(construct("FOSSILS", "normal", T0 - 1000, [t |-> 50, h |-> 50, m |-> 50]),
                              T0 - 1000, Rough, Quiet) IN
       /\ sim = h.sim
       /\ opened = openingsOf(h.history24h \o h.history7d, "closed")
       /\ srv = [ config |-> [artifactType |-> "FOSSILS", demoMode |-> "normal"],
                  store  |-> setHistory(newStore, h),
                  sent   |-> << >> ]
  /\ ret = NoReturn
  /\ fresh = TRUE
  /\ steps = 0
  /\ EngineIdle
  /\ CompareIdle

\* The tick object of the main loop (lines 151-158)
snapshotOf(config, reading, standards, assessment) ==
  [ timestamp    |-> reading.timestamp,
    artifactType |-> config.artifactType,
    demoMode     |-> config.demoMode,
    reading      |-> reading,
    standards    |-> standards,
    assessment   |-> assessment ]

\* store.setLive(tick); broadcast({ type: "tick", data: tick })
publish(server, snapshot) ==
  broadcast([server EXCEPT !.store = setLive(server.store, snapshot)],
            [type |-> "tick", data |-> snapshot])

\* The slow-roll points of lines 163-165
slowRoll(server, reading) ==
  LET ms   == DateParse(reading.timestamp)
      day  == IF ms % 60000 < 1000
                THEN [server EXCEPT !.store = appendToHistory(server.store, "24h", reading)]
                ELSE server
  IN IF ms % (30 * 60000) < 1000
       THEN [day EXCEPT !.store = appendToHistory(day.store, "7d", reading)]
       ELSE day

\* One run of the setInterval callback (lines 141-166), a second after the
\* last one; the callback has no await and runs to its end.  Each value the
\* callback computes is bound once, in the order of the source.
MainLoop ==
  \E nz \in LoopNoise :
    /\ steps < MaxLoopSteps
    /\ now' = now + 1000
    /\ \E t \in {tick(sim, now + 1000, nz)} :
       \E window \in {ingest(recent, t.reading)} :
       \E standards \in {getStandards(srv.config.artifactType)} :
       \E assessment \in {evaluate(window, t.reading, standards)} :
       \E st \in { IF Len(assessment.actions) > 0
                     THEN applyActions([sim |-> t.sim, server |-> srv],
                                       assessment.actions, t.reading, now + 1000)
                     ELSE [sim |-> t.sim, server |-> srv] } :
         /\ sim' = st.sim
         /\ srv' = slowRoll(publish(st.server,
                                    snapshotOf(srv.config, t.reading, standards, assessment)),
                            t.reading)
         /\ recent' = window
         /\ input' = [kind |-> "input", reading |-> t.reading, standards |-> standards]
         /\ asmt' = <<assessment>>
         /\ opened' = opened \cup openingsOf(<<t.reading>>, sim.state.doorState)
    /\ ret' = [kind |-> "cycle"]
    /\ fresh' = FALSE
    /\ steps' = steps + 1
    /\ UNCHANGED cmpVars

\* The validation of POST /api/config (lines 109-114) with the demoMode test
\* left out
validationErrorTypeOnly(body) ==
  IF body.artifactType # "" /\ body.artifactType \notin ARTIFACT_TYPES
    THEN "Unknown artifactType"
    ELSE ""

\* The validation of POST /api/config (lines 109-114): the error the request
\* is answered with, "" when it passes.  A field that is absent or empty is
\* falsy and passes.
validationError(body) ==
  IF body.artifactType # "" /\ body.artifactType \notin ARTIFACT_TYPES
    THEN "Unknown artifactType"
  ELSE IF body.demoMode # "" /\ body.demoMode \notin DEMO_MODES
    THEN "Unknown demoMode"
    ELSE ""

\* POST /api/config (lines 107-131); ret keeps the body next to the response
ConfigRequest ==
  \E body \in LoopBodies :
    /\ steps < MaxLoopSteps
    /\ steps' = steps + 1
    /\ IF validationError(body) # ""
         THEN /\ ret' = [kind |-> "response", body |-> body, status |-> 400,
                         error |-> validationError(body)]
              /\ UNCHANGED <<sim, now, opened, fresh, engVars, cmpVars, srvVars>>
         ELSE LET config == [ artifactType |-> IF body.artifactType # "" THEN body.artifactType
                                               ELSE srv.config.artifactType,
                              demoMode     |-> IF body.demoMode # "" THEN body.demoMode
                                               ELSE srv.config.demoMode ]
                  d      == [t |-> 50, h |-> 50, m |-> 50]
                  s1     == setArtifactType(sim, config.artifactType, now, d)
                  s2     == setDemoMode(s1, config.demoMode, now, d)
                  entry  == [ timestamp |-> toISOString(now),
                              kind      |-> "CONFIG",
                              message   |-> <<"Config updated", config.artifactType, config.demoMode>> ]
              IN \E nz \in HistoryNoise :
                 \E h \in {generateHistory(s2, now, nz, Toggle)} :
                   LET stored == [srv EXCEPT !.config = config,
                                             !.store = setHistory(srv.store, h)]
                   IN /\ sim' = h.sim
                      /\ srv' = logEvent(stored, entry)
                      /\ opened' = openingsOf(h.history24h \o h.history7d, "closed")
                      /\ fresh' = TRUE
                      /\ ret' = [kind |-> "response", body |-> body, status |-> 200,
                                 ok |-> TRUE, config |-> config]
                      /\ UNCHANGED <<now, engVars, cmpVars>>

NextLoop == MainLoop \/ ConfigRequest

SpecLoop == LoopInit /\ [][NextLoop]_vars

\* The simulator after applyAction was called once for each of the actions
\* from the i-th on, in list order.
RECURSIVE appliedInOrder(_, _, _, _)
appliedInOrder(s, actions, nowMs, i) ==
  IF i > Len(actions) THEN s
  ELSE appliedInOrder(applyAction(s, actions[i].type, nowMs), actions, nowMs, i + 1)

\* What a step added at the end of a sequence that only grows.
addedTo(before, after) == SubSeq(after, Len(before) + 1, Len(after))

\* C19: in every cycle of the main loop the Reading is the one tick returns
\* for the simulator as the previous cycle left it (its actions applied, none
\* of this cycle's); the Reading is ingested before evaluate runs on the
\* window; the simulator then has each action of the Assessment applied once,
\* in list order; the log has grown by exactly one AUTO_REMEDIATION entry per
\* action, in list order; the messages sent are those log entries and then
\* the tick with the snapshot that was set live; and the config is the one
\* the cycle started with.
C19_CycleOrder ==
  [][ ret'.kind = "cycle" =>
        LET snapshot == srv'.store.live
            reading  == snapshot.reading
            actions  == snapshot.assessment.actions
            n        == Len(actions)
            logged   == addedTo(srv.store.logs, srv'.store.logs)
            sent     == addedTo(srv.sent, srv'.sent)
        IN /\ \E nz \in LoopNoise :
                /\ tick(sim, now', nz).reading = reading
                /\ sim' = appliedInOrder(tick(sim, now', nz).sim, actions, now', 1)
           /\ recent'[Len(recent')].reading = reading
           /\ snapshot.assessment =
                evaluate(recent', reading, getStandards(srv.config.artifactType))
           /\ Len(logged) = n
           /\ \A i \in 1..n :
                /\ logged[i].kind = "AUTO_REMEDIATION"
                /\ logged[i].actionType = actions[i].type
                /\ logged[i].timestamp = toISOString(now')
           /\ Len(sent) = n + 1
           /\ \A i \in 1..n : sent[i] = [type |-> "log", data |-> logged[i]]
           /\ sent[n + 1] = [type |-> "tick", data |-> snapshot]
           /\ srv'.config = srv.config
           /\ snapshot.artifactType = srv.config.artifactType ]_vars

\* A cycle whose Assessment carried three actions or more, in a server whose
\* log held entries before: the simulator's controls are set.
C19_Witness ==
  /\ ret.kind = "cycle"
  /\ Len(srv.store.live.assessment.actions) >= 3
  /\ hasType(srv.store.live.assessment.actions, "DEHUMIDIFY")
  /\ sim.controls.humidityBiasPct < 0
  /\ sim.controls.airflowBoost > 0
  /\ sim.controls.tempBiasC # 0
  /\ Len(srv.store.logs) > Len(srv.store.live.assessment.actions)

\* C20: a config request whose artifactType or demoMode is present and
\* unknown is answered with status 400 and an error, and the config, the
\* simulator (parameters, physical state, controls), the stored history, the
\* log, the messages sent and the engine's window are as before, also when
\* the other field of the body is valid.
C20_RejectedChangesNothing ==
  [][ ( /\ ret'.kind = "response"
        /\ \/ ret'.body.artifactType \notin ARTIFACT_TYPES \cup {""}
           \/ ret'.body.demoMode \notin DEMO_MODES \cup {""} )
      => /\ ret'.status = 400
         /\ ret'.error # ""
         /\ srv'.config = srv.config
         /\ sim' = sim
         /\ srv'.store = srv.store
         /\ srv'.sent = srv.sent
         /\ recent' = recent ]_vars

\* A request with a valid artifactType and an unknown demoMode was rejected
\* by a server that had been reconfigured and had run a cycle before.
C20_Witness ==
  /\ ret.kind = "response"
  /\ ret.status = 400
  /\ ret.body = [artifactType |-> "STONE", demoMode |-> "turbo"]
  /\ srv.config.demoMode # "normal"
  /\ srv.store.live # NoLive
  /\ sim.controls.humidityBiasPct # 0

\* The timestamps of a stored series, in ms.
stampsOf(points) == [i \in 1..Len(points) |-> DateParse(points[i].timestamp)]

\* A series is in non-decreasing timestamp order, has at most count points
\* and spans at most spanMs from its first point to its last.
seriesWithin(points, count, spanMs) ==
  LET ts == stampsOf(points) IN
    /\ Len(points) <= count
    /\ \A i \in 1..(Len(points) - 1) : ts[i] <= ts[i + 1]
    /\ Len(points) > 0 => ts[Len(points)] - ts[1] <= spanMs

\* C22 as stated: at all times after start-up the stored history24h is in
\* non-decreasing timestamp order and covers 24 hours, never a longer span
\* (1441 points of one minute), and history7d likewise covers 7 days (337
\* points of 30 minutes).
C22_HistoryWindows ==
  srv # NoServer =>
    /\ seriesWithin(srv.store.history24h, 24 * 60 + 1, 24 * 60 * 60000)
    /\ seriesWithin(srv.store.history7d, 7 * 48 + 1, 7 * 48 * 30 * 60000)

\* The trend amplifier for a humidity slope sl: 8 above 0.08 %/min, 20 in
\* total above 0.15 %/min.
trendBonus(sl) ==
  IF slopePerMinAbove(sl, 1500) THEN 20
  ELSE IF slopePerMinAbove(sl, 800) THEN 8 ELSE 0

\* All entries of a window carry one timestamp.
oneInstant(window) == \A i \in 1..Len(window) : window[i].tMs = window[1].tMs

\* C23: riskScore is clamp(round(0.22 riskTemp + 0.28 riskHumidity
\* + 0.22 riskMoisture + 0.16 riskAccess + 0.12 riskVibration + A), 0, 100)
\* with A = trend bonus (8 above 0.08 %/min, 20 above 0.15 %/min) + 4 when the
\* door is open - 3 when access is locked; and the slope is 0 when the window
\* holds fewer than 2 points or all its points share one timestamp.
C23_ScoreFormula ==
  Evaluated =>
    LET r   == input.reading
        std == input.standards
        sl  == slope(humidityPoints(recent))
        A   == trendBonus(sl)
                 + (IF r.doorState = "open" THEN 4 ELSE 0)
                 - (IF r.accessLocked THEN 3 ELSE 0)
        sum == 22 * riskFromRange(r.temperatureC, std.temperatureC)
                 + 28 * riskFromRange(r.humidityPct, std.humidityPct)
                 + 22 * riskFromMax(r.moisturePct, std.moisturePct)
                 + 16 * riskAccessOf(r, std)
                 + 12 * riskVibrationOf(r, std)
                 + A * 100 * RiskUnit
    IN /\ lastAssessment.riskScore = clamp(mathRound(sum, 100 * RiskUnit), 0, 100)
       /\ (Len(recent) < 2 \/ oneInstant(recent)) =>
            /\ sl.num = 0
            /\ lastAssessment.trends.humiditySlopePerMin = 0
            /\ trendBonus(sl) = 0

\* An Assessment for a window rising faster than 0.15 %/min with the door
\* open: both amplifiers are in the score, which is not at the clamp.
C23_Witness ==
  /\ Evaluated
  /\ Len(recent) >= 2
  /\ trendBonus(slope(humidityPoints(recent))) = 20
  /\ input.reading.doorState = "open"
  /\ lastAssessment.riskScore \in 25..99

\* A status and a risk contribution (in thousandths of a point) agree.
agree(status, risk) ==
  /\ status = "safe" <=> risk = 0
  /\ status = "warn" <=> (25 * RiskUnit <= risk /\ risk <= 60 * RiskUnit)
  /\ status = "danger" <=> (70 * RiskUnit <= risk /\ risk <= 100 * RiskUnit)

\* C24: for temperature, humidity and moisture the status in the Assessment
\* and the metric's risk contribution agree: 0 exactly when safe, in [25,60]
\* exactly when warn, in [70,100] exactly when danger.
C24_StatusMatchesRisk ==
  Evaluated =>
    LET r   == input.reading
        std == input.standards
        st  == lastAssessment.statuses
    IN /\ agree(st.temperature.status, riskFromRange(r.temperatureC, std.temperatureC))
       /\ agree(st.humidity.status, riskFromRange(r.humidityPct, std.humidityPct))
       /\ agree(st.moisture.status, riskFromMax(r.moisturePct, std.moisturePct))

\* An Assessment with humidity exactly on the upper end of the safe band
\* (safe, contribution 0), temperature in danger and moisture in warn.
C24_Witness ==
  /\ Evaluated
  /\ input.reading.humidityPct = input.standards.humidityPct.safe[2]
  /\ lastAssessment.statuses.humidity.status = "safe"
  /\ lastAssessment.statuses.temperature.status = "danger"
  /\ lastAssessment.statuses.moisture.status = "warn"

\* The three sentences predictionForHumidity can return.
predictions ==
  { <<"Humidity rising fast-risk of mold formation within ~6 hours.">>,
    <<"High humidity-mold risk increases over the next day.">>,
    <<"Humidity trending upward-keep an eye on mold/corrosion risk.">> }

\* How each metric's sentence begins, in the order temperature, humidity,
\* moisture, access, vibration.
sentenceHeads ==
  << <<"temperature", "Temperature is">>, <<"humidity", "Humidity is">>,
     <<"moisture", "Moisture content is">>, <<"access", "Repeated access detected">>,
     <<"vibration", "Vibration is">> >>

\* C25: the insights list is never empty; it is the single reassuring message
\* exactly when all five metrics are safe; otherwise it holds the humidity
\* prediction first, if there is one, and then exactly one sentence for each
\* metric that is not safe, in the order temperature, humidity, moisture,
\* access, vibration.
C25_Insights ==
  Evaluated =>
    LET ins     == lastAssessment.insights
        st      == lastAssessment.statuses
        allSafe == \A k \in DOMAIN st : st[k].status = "safe"
        heads   == SelectSeq(sentenceHeads, LAMBDA h : st[h[1]].status # "safe")
        lead    == Len(ins) - Len(heads)
        stable  == << <<"All conditions look stable. ConserveBot is just monitoring.">> >>
    IN /\ Len(ins) > 0
       /\ allSafe <=> ins = stable
       /\ ~allSafe =>
            /\ lead \in {0, 1}
            /\ lead = 1 => ins[1] \in predictions
            /\ \A i \in 1..Len(heads) :
                 /\ ins[lead + i] \notin predictions
                 /\ ins[lead + i][1] = heads[i][2]

\* An Assessment whose insights are a prediction followed by the sentences of
\* three metrics or more, the last one about vibration.
C25_Witness ==
  /\ Evaluated
  /\ Len(lastAssessment.insights) >= 4
  /\ lastAssessment.insights[1] \in predictions
  /\ lastAssessment.insights[Len(lastAssessment.insights)][1] = "Vibration is"
  /\ lastAssessment.statuses.moisture.status = "safe"

\* How many actions of a list have one of the given types.
countTypes(actions, types) ==
  Cardinality({i \in 1..Len(actions) : actions[i].type \in types})

\* C26: the action list holds at most one temperature action;
\* ADJUST_TEMP_DOWN is there exactly when riskScore >= 45 and the temperature
\* is above the safe band, ADJUST_TEMP_UP exactly when riskScore >= 45 and it
\* is below the safe band, neither when the temperature status is safe;
\* LOCK_ACCESS_10_MIN is there exactly when riskScore >= 45 and opensPerHour
\* exceeds maxOpensPerHourWarn.
C26_TempAndLockActions ==
  Evaluated =>
    LET a     == lastAssessment.actions
        r     == input.reading
        std   == input.standards
        gated == lastAssessment.riskScore >= 45
    IN /\ countTypes(a, {"ADJUST_TEMP_DOWN", "ADJUST_TEMP_UP"}) <= 1
       /\ countTypes(a, {"LOCK_ACCESS_10_MIN"}) <= 1
       /\ hasType(a, "ADJUST_TEMP_DOWN")
            <=> (gated /\ r.temperatureC > std.temperatureC.safe[2])
       /\ hasType(a, "ADJUST_TEMP_UP")
            <=> (gated /\ r.temperatureC < std.temperatureC.safe[1])
       /\ lastAssessment.statuses.temperature.status = "safe"
            => countTypes(a, {"ADJUST_TEMP_DOWN", "ADJUST_TEMP_UP"}) = 0
       /\ hasType(a, "LOCK_ACCESS_10_MIN")
            <=> (gated /\ r.opensPerHour > std.access.maxOpensPerHourWarn)

\* An Assessment that cools a temperature in the warn band and locks access.
C26_Witness ==
  /\ Evaluated
  /\ lastAssessment.statuses.temperature.status = "warn"
  /\ hasType(lastAssessment.actions, "ADJUST_TEMP_DOWN")
  /\ hasType(lastAssessment.actions, "LOCK_ACCESS_10_MIN")
  /\ ~hasType(lastAssessment.actions, "DEHUMIDIFY")

----------------------------------------------------------------------------
\* The log store on its own (store.js): entries are pushed one after the
\* other and the log is read back through getLogs, as GET /api/logs does with
\* the limit of the query string.

\* The limit of a request: absent or not a number (Number(limit) is NaN), or
\* the number n.
NotANumber == [nan |-> TRUE, n |-> 0]

numeric(n) == [nan |-> FALSE, n |-> n]

\* Number(limit) || 50: NaN and 0 are falsy
numberOrDefault(limit) == IF limit.nan \/ limit.n = 0 THEN 50 ELSE limit.n

\* Array.prototype.reverse on a copy
reversed(arr) == [i \in 1..Len(arr) |-> arr[Len(arr) + 1 - i]]

\* getLogs handing out the entries oldest first
getLogsOldestFirst(store, limit) ==
  lastEntries(store.logs, clamp(numberOrDefault(limit), 1, 500))

getLogs(store, limit) ==
  LET safeLimit == clamp(numberOrDefault(limit), 1, 500)
  IN reversed(lastEntries(store.logs, safeLimit))

MaxPushes == 503

Limits == {NotANumber} \cup {numeric(n) : n \in {-3, 0, 1, 30, 500, 501}}

LogInit ==
  /\ now = T0
  /\ sim = construct("FOSSILS", "normal", T0, [t |-> 50, h |-> 50, m |-> 50])
  /\ opened = << >>
  /\ ret = NoReturn
  /\ fresh = TRUE
  /\ steps = 0
  /\ EngineIdle
  /\ CompareIdle
  /\ srv = [store |-> newStore]

\* store.pushLog(entry); the entries are numbered in push order.
PushLog ==
  /\ steps < MaxPushes
  /\ srv' = [srv EXCEPT !.store = pushLog(srv.store, [id |-> steps + 1])]
  /\ steps' = steps + 1
  /\ ret' = [kind |-> "pushed"]
  /\ UNCHANGED <<sim, now, opened, fresh, engVars, cmpVars>>

\* store.getLogs(limit)
GetLogs ==
  \E limit \in Limits :
    /\ ret' = [kind |-> "logs", limit |-> limit, logs |-> getLogs(srv.store, limit)]
    /\ UNCHANGED <<sim, now, opened, fresh, steps, engVars, cmpVars, srvVars>>

NextLog == PushLog \/ GetLogs

SpecLog == LogInit /\ [][NextLog]_vars

\* The entries numbered from..to, newest first when from > to.
pushedFrom(from, n) == [i \in 1..n |-> [id |-> from + i - 1]]

newestFirst(last, n) == [i \in 1..n |-> [id |-> last + 1 - i]]

\* The store holds the newest min(pushes, 500) entries in push order and
\* nothing else has changed in it.
boundedLog ==
  LET size == Min2(steps, 500)
  IN srv.store = [newStore EXCEPT !.logs = pushedFrom(steps - size + 1, size)]

\* C27 as stated: the store holds at most 500 entries, the most recently
\* pushed ones in push order, and getLogs(limit) returns the newest
\* min(clamp(limit, 1, 500), size) entries, newest first, leaving the store
\* as it was.
C27_LogsByClampedLimit ==
  /\ Len(srv.store.logs) <= 500
  /\ boundedLog
  /\ (ret.kind = "logs" /\ ~ret.limit.nan) =>
       ret.logs = newestFirst(steps, Min2(clamp(ret.limit.n, 1, 500), Len(srv.store.logs)))

\* C27: the store holds at most 500 entries, the most recently pushed ones
\* in push order; getLogs(limit) returns the newest min(k, size) entries,
\* newest first, where k is 50 when the limit is absent, not a number or 0
\* and clamp(limit, 1, 500) otherwise, and it leaves the store as it was.
C27_BoundedLog ==
  /\ Len(srv.store.logs) <= 500
  /\ boundedLog
  /\ ret.kind = "logs" =>
       LET k == IF ret.limit.nan \/ ret.limit.n = 0 THEN 50
                ELSE clamp(ret.limit.n, 1, 500)
       IN ret.logs = newestFirst(steps, Min2(k, Len(srv.store.logs)))

\* More than 500 entries were pushed and a request with limit 0 got 50.
C27_Witness ==
  /\ steps > 500
  /\ Len(srv.store.logs) = 500
  /\ ret.kind = "logs"
  /\ ~ret.limit.nan /\ ret.limit.n = 0
  /\ Len(ret.logs) = 50

\* C28: no Assessment contains DEHUMIDIFY or TRIGGER_AIRFLOW for a reading
\* whose humidity is not above the upper end of the safe band; in particular
\* none does for a humidity that is in danger because it is too low.
C28_NeverDriesTooDry ==
  Evaluated =>
    ((hasType(lastAssessment.actions, "DEHUMIDIFY")
        \/ hasType(lastAssessment.actions, "TRIGGER_AIRFLOW"))
       => input.reading.humidityPct > input.standards.humidityPct.safe[2])

\* The instants of the accepted configuration changes, read off the log.
configChanges ==
  {DateParse(srv.store.logs[i].timestamp) :
     i \in {j \in 1..Len(srv.store.logs) : srv.store.logs[j].kind = "CONFIG"}}

\* The entries of a window that were produced after every configuration
\* change so far.
sinceChange(window) ==
  SelectSeq(window, LAMBDA p : \A c \in configChanges : p.tMs > c)

\* C29: when a cycle of the main loop has evaluated, the TrendWindow holds
\* only readings produced since the last accepted configuration change, and
\* the risk score is the one those readings alone give: no reading from before
\* a reset of the simulator takes part in the humidity slope.
C29_WindowSinceChange ==
  ret.kind = "cycle" =>
    /\ recent = sinceChange(recent)
    /\ lastAssessment.riskScore
         = evaluate(sinceChange(recent), input.reading, input.standards).riskScore

----------------------------------------------------------------------------
\* The airflow control (simulator.js lines 53-82): a simulator on which some
\* actions were already applied takes further calls of its public methods.

MaxAirSteps == 2

\* The actions applied before the run is followed: none, three and four
\* TRIGGER_AIRFLOW (airflowBoost 0, 0.75, 1).
AirStarts == { << >>,
               [i \in 1..3 |-> [type |-> "TRIGGER_AIRFLOW"]],
               [i \in 1..4 |-> [type |-> "TRIGGER_AIRFLOW"]] }

AirInit ==
  /\ now = T0
  /\ \E before \in AirStarts :
       sim = appliedInOrder(construct("FOSSILS", "normal", T0, [t |-> 50, h |-> 50, m |-> 50]),
                            before, T0, 1)
  /\ opened = {}
  /\ ret = NoReturn
  /\ fresh = TRUE
  /\ steps = 0
  /\ EngineIdle
  /\ CompareIdle
  /\ ServerIdle

\* simulator.applyAction(type), a type the simulator knows or not
AirApply ==
  \E a \in ACTION_TYPES \cup {"RECALIBRATE"} :
    /\ steps < MaxAirSteps
    /\ sim' = applyAction(sim, a, now)
    /\ ret' = [kind |-> "applied", actionType |-> a]
    /\ steps' = steps + 1
    /\ UNCHANGED <<now, opened, fresh, engVars, cmpVars, srvVars>>

\* simulator.tick(), a second after the last call
AirTick ==
  \E nz \in {Quiet, Rough} :
    /\ steps < MaxAirSteps
    /\ now' = now + 1000
    /\ LET r == tick(sim, now + 1000, nz) IN
         /\ sim' = r.sim
         /\ ret' = [kind |-> "reading", reading |-> r.reading]
         /\ opened' = opened \cup openingsOf(<<r.reading>>, sim.state.doorState)
    /\ fresh' = FALSE
    /\ steps' = steps + 1
    /\ UNCHANGED <<engVars, cmpVars, srvVars>>

\* simulator.setArtifactType(type) or simulator.setDemoMode(mode)
AirSet ==
  \E call \in {"setArtifactType", "setDemoMode"} :
    LET arg == IF call = "setArtifactType" THEN "STONE" ELSE "remediation"
        d   == [t |-> 50, h |-> 50, m |-> 50]
    IN /\ steps < MaxAirSteps
       /\ sim' = IF call = "setArtifactType" THEN setArtifactType(sim, arg, now, d)
                                             ELSE setDemoMode(sim, arg, now, d)
       /\ ret' = [kind |-> "set", call |-> call, arg |-> arg]
       /\ opened' = {}
       /\ fresh' = TRUE
       /\ steps' = steps + 1
       /\ UNCHANGED <<now, engVars, cmpVars, srvVars>>

\* simulator.generateHistory(), called as server.js calls it: right after a
\* setter (lines 116-121)
AirHistory ==
  /\ steps < MaxAirSteps
  /\ ret.kind = "set"
  /\ \E h \in {generateHistory(sim, now, Quiet, Toggle)} :
       /\ sim' = h.sim
       /\ ret' = historyReturn(h)
       /\ opened' = openingsOf(h.history24h \o h.history7d, "closed")
  /\ fresh' = TRUE
  /\ steps' = steps + 1
  /\ UNCHANGED <<now, engVars, cmpVars, srvVars>>

NextAir == AirApply \/ AirTick \/ AirSet \/ AirHistory

SpecAir == AirInit /\ [][NextAir]_vars

\* What a step does to airflowBoost: DEHUMIDIFY adds 0.2 and TRIGGER_AIRFLOW
\* 0.25, both capped at 1, and no step lowers it.
airflowStep ==
  LET before == sim.controls.airflowBoost
      after  == sim'.controls.airflowBoost
      raised == IF ret'.kind # "applied" THEN 0
                ELSE IF ret'.actionType = "DEHUMIDIFY" THEN 2000
                ELSE IF ret'.actionType = "TRIGGER_AIRFLOW" THEN 2500
                ELSE 0
  IN /\ after >= before
     /\ raised > 0 => after = Min2(before + raised, Scale)
     /\ before = Scale => after = Scale

\* C30: airflowBoost lies in [0,1] in every reachable state; DEHUMIDIFY raises
\* it by 0.2 and TRIGGER_AIRFLOW by 0.25, both capped at 1, and no other
\* action, no tick, no generateHistory and no setter lowers it, so that it
\* stays 1 once it is 1.
C30_AirflowMonotone ==
  /\ [](0 <= sim.controls.airflowBoost /\ sim.controls.airflowBoost <= Scale)
  /\ [][airflowStep]_vars

\* The history was regenerated on a simulator whose airflowBoost had reached
\* the cap, and it is still 1.
C30_Witness ==
  /\ ret.kind = "history"
  /\ steps = 2
  /\ sim.controls.airflowBoost = Scale

MaxLockTicks == 4250

\* The server with the messages of the earlier cycles taken by the sockets.
delivered(server) == [server EXCEPT !.sent = << >>]

\* One run of the setInterval callback (lines 141-166) with a visitor at the
\* door: Math.random() draws Toggle in every tick, so the door toggles whenever
\* tick allows it, ten seconds after the last toggle and only while unlocked.
LockCycle ==
  /\ steps < MaxLockTicks
  /\ now' = now + 1000
  /\ \E t \in {tick(sim, now + 1000, Toggle)} :
     \E window \in {ingest(recent, t.reading)} :
     \E standards \in {getStandards(srv.config.artifactType)} :
     \E assessment \in {evaluate(window, t.reading, standards)} :
     \E st \in { IF Len(assessment.actions) > 0
                   THEN applyActions([sim |-> t.sim, server |-> delivered(srv)],
                                     assessment.actions, t.reading, now + 1000)
                   ELSE [sim |-> t.sim, server |-> delivered(srv)] } :
       /\ sim' = st.sim
       /\ srv' = slowRoll(publish(st.server,
                                  snapshotOf(srv.config, t.reading, standards, assessment)),
                          t.reading)
       /\ recent' = window
       /\ input' = [kind |-> "input", reading |-> t.reading, standards |-> standards]
       /\ asmt' = <<assessment>>
       /\ opened' = opened \cup openingsOf(<<t.reading>>, sim.state.doorState)
  /\ ret' = [kind |-> "cycle"]
  /\ fresh' = FALSE
  /\ steps' = steps + 1
  /\ UNCHANGED cmpVars

\* The server from module load on, with the main loop alone.
SpecLock == LoopInit /\ [][LockCycle]_vars

\* setInterval(..., 1000) of line 141: the timer fires again a second later as
\* long as the process runs.
nextSecond == steps < MaxLockTicks /\ now' = now + 1000

\* Every step of SpecLock that moves the clock is a LockCycle step, and
\* LockCycle is enabled exactly when nextSecond is: the fairness is that of
\* the callback.
SpecLockFair == SpecLock /\ WF_now(nextSecond)

lockedReading == ret.kind = "cycle" /\ input.reading.accessLocked

unlockedReading == ret.kind = "cycle" /\ ~input.reading.accessLocked

\* The instant of the most recent door-open event.
lastOpen == CHOOSE e \in opened : \A f \in opened : f <= e

\* No Reading is locked 70 minutes or more after the most recent door-open
\* event, and no lock reaches beyond that instant.
lockWithin70Min ==
  /\ lockedReading =>
       /\ opened # {}
       /\ DateParse(input.reading.timestamp) < lastOpen + 70 * 60000
  /\ sim.controls.accessLockedUntilMs > now =>
       /\ opened # {}
       /\ sim.controls.accessLockedUntilMs <= lastOpen + 70 * 60000

\* C31: in the closed loop with a tick every second a lock does not last
\* forever: every locked Reading is followed by a Reading with accessLocked =
\* false, and a Reading is locked only less than 70 minutes after the most
\* recent door-open event (no lock is ever set to expire later than that).
C31_LockReleased ==
  /\ []lockWithin70Min
  /\ lockedReading ~> unlockedReading

\* A cycle whose Reading is locked and whose Assessment extended the lock by
\* LOCK_ACCESS_10_MIN: more than four door-open events still lie in the
\* trailing hour.
C31_Witness ==
  /\ lockedReading
  /\ hasType(lastAssessment.actions, "LOCK_ACCESS_10_MIN")
  /\ sim.controls.accessLockedUntilMs = now + 10 * 60000
  /\ input.reading.opensPerHour > 4

\* GET /api/status (lines 90-96): the response body
statusResponse(server) ==
  [ config    |-> server.config,
    live      |-> server.store.live,
    standards |-> getStandards(server.config.artifactType) ]

\* C32: whenever /api/status is served with a live snapshot, the snapshot's
\* artifactType and demoMode are those of the current config and its standards
\* are those of the current artifact type, also right after an accepted config
\* change and before the next tick; and the snapshot's reading, assessment and
\* standards are those of one cycle.
C32_SnapshotOfCurrentConfig ==
  LET r == statusResponse(srv) IN
  r.live # NoLive =>
    /\ r.live.artifactType = r.config.artifactType
    /\ r.live.demoMode = r.config.demoMode
    /\ r.live.standards = r.standards
    /\ r.live.reading = input.reading
    /\ r.live.standards = input.standards
    /\ r.live.assessment = lastAssessment
    /\ r.live.timestamp = r.live.reading.timestamp

====
